---- MODULE Spec2Model ----
(***************************************************************************)
(* A model of mcp-proxy's endpoint translation engine (the tool, resource  *)
(* and prompt handlers) and of its resilient transport (HTTPClient with    *)
(* retries, CircuitBreaker, ClientManager).                                *)
(*                                                                         *)
(* Go strings are sequences of one-character strings, so that             *)
(* strings.ReplaceAll, strings.Split and strings.Trim are computed on the  *)
(* characters as the Go library computes them.                             *)
(***************************************************************************)
EXTENDS Integers, Sequences, FiniteSets, TLC

\* ------------------------------------------------------------------------
\* Bounds of the model
\* ------------------------------------------------------------------------

\* largest MaxRetries a client configuration is given
MaxRetriesBound == 2
\* largest MaxRetries when two invocations run concurrently
ConcurrentRetriesBound == 1
\* largest maxFailures a circuit breaker is created with
MaxFailuresBound == 2
\* largest resetTimeout a circuit breaker is created with
MaxResetTimeout == 1
\* the clock stops at this tick
MaxTime == 3
\* handler invocations started in one behaviour
MaxCalls == 3
\* largest number of parameters declared in one endpoint
MaxParams == 2

\* ------------------------------------------------------------------------
\* Strings
\* ------------------------------------------------------------------------

\* s[i..j] (empty when j < i)
Sub(s, i, j) == SubSeq(s, i, j)

\* whether pat occurs in s starting at position i
OccursAt(s, pat, i) ==
    /\ i >= 1
    /\ i + Len(pat) - 1 <= Len(s)
    /\ Sub(s, i, i + Len(pat) - 1) = pat

\* strings.Contains
Contains(s, pat) == \E i \in 1..(Len(s) + 1) : OccursAt(s, pat, i)

\* strings.HasPrefix, strings.HasSuffix
HasPrefix(s, pat) == OccursAt(s, pat, 1)
HasSuffix(s, pat) == OccursAt(s, pat, Len(s) - Len(pat) + 1)

\* strings.ReplaceAll(s, old, new) for a non-empty old: the non-overlapping
\* occurrences of old, leftmost first, are replaced by new in one pass
RECURSIVE ReplaceFrom(_, _, _, _)
ReplaceFrom(s, old, new, i) ==
    IF i > Len(s) THEN <<>>
    ELSE IF OccursAt(s, old, i)
         THEN new \o ReplaceFrom(s, old, new, i + Len(old))
         ELSE <<s[i]>> \o ReplaceFrom(s, old, new, i + 1)

ReplaceAll(s, old, new) == ReplaceFrom(s, old, new, 1)

\* strings.Split(s, sep) for a one-character sep
RECURSIVE SplitFrom(_, _, _, _)
SplitFrom(s, sep, i, cur) ==
    IF i > Len(s) THEN <<cur>>
    ELSE IF s[i] = sep
         THEN <<cur>> \o SplitFrom(s, sep, i + 1, <<>>)
         ELSE SplitFrom(s, sep, i + 1, Append(cur, s[i]))

Split(s, sep) == SplitFrom(s, sep, 1, <<>>)

\* strings.Join
RECURSIVE Join(_, _)
Join(parts, sep) ==
    IF parts = <<>> THEN <<>>
    ELSE IF Len(parts) = 1 THEN parts[1]
    ELSE parts[1] \o sep \o Join(Tail(parts), sep)

\* strings.Trim(s, cutset): leading and trailing characters of cutset removed
RECURSIVE TrimLeft(_, _)
TrimLeft(s, cutset) ==
    IF s # <<>> /\ s[1] \in cutset THEN TrimLeft(Tail(s), cutset) ELSE s

RECURSIVE TrimRight(_, _)
TrimRight(s, cutset) ==
    IF s # <<>> /\ s[Len(s)] \in cutset
    THEN TrimRight(Sub(s, 1, Len(s) - 1), cutset) ELSE s

Trim(s, cutset) == TrimRight(TrimLeft(s, cutset), cutset)

\* strconv of a natural number, as fmt's %v prints a whole number
Digit(d) == <<CASE d = 0 -> "0" [] d = 1 -> "1" [] d = 2 -> "2" [] d = 3 -> "3"
                [] d = 4 -> "4" [] d = 5 -> "5" [] d = 6 -> "6" [] d = 7 -> "7"
                [] d = 8 -> "8" [] OTHER -> "9">>

RECURSIVE Itoa(_)
Itoa(n) == IF n < 10 THEN Digit(n) ELSE Itoa(n \div 10) \o Digit(n % 10)

\* An argument value (Go's any): a string [str |-> s] or a number [num |-> n]
Str(s) == [str |-> s]
Num(n) == [num |-> n]

\* fmt.Sprintf("%v", value)
Sprintv(v) == IF "str" \in DOMAIN v THEN v.str ELSE Itoa(v.num)

\* fmt.Sprintf("{%s}", identifier)
Placeholder(id) == <<"{">> \o id \o <<"}">>

\* ------------------------------------------------------------------------
\* Configuration model (Param, Endpoint, Backend)
\* ------------------------------------------------------------------------

TOOL == "tool"
RESOURCE == "resource"
PROMPT == "prompt"
DYNAMIC == "dynamic"
CONSTANT_ == "constant"
\* Mode, of a tool endpoint
WEBHOOK == "webhook"
CLIENT == "client"

\* a Param declaration; DataType and Description play no part at run time
Param(id, vt, req, val) ==
    [Identifier |-> id, ValueType |-> vt, Required |-> req, Value |-> val]

\* the empty string, and the identifier reported when no parameter failed
Empty == <<>>

\* ------------------------------------------------------------------------
\* Request building (pure functions of endpoint, backend and arguments)
\* ------------------------------------------------------------------------

\* value, exists := arguments[param.Identifier]   (tool and prompt handlers:
\* the declared ValueType is not consulted)
BagLookup(param, arguments) ==
    IF param.Identifier \in DOMAIN arguments
    THEN [exists |-> TRUE, value |-> arguments[param.Identifier]]
    ELSE [exists |-> FALSE, value |-> Str(Empty)]

\* the resource handler's resolution: a constant parameter takes param.Value
\* and exists only when that value is not the empty string
ResourceLookup(param, arguments) ==
    IF param.ValueType = CONSTANT_
    THEN [exists |-> param.Value # Empty, value |-> Str(param.Value)]
    ELSE BagLookup(param, arguments)

\* the resolution each handler's buildURL/buildQueryParams/buildRequestBody uses
Lookup(cap, param, arguments) ==
    IF cap = RESOURCE THEN ResourceLookup(param, arguments)
    ELSE BagLookup(param, arguments)

\* the loop of buildURL from parameter i on
RECURSIVE BuildURLFrom(_, _, _, _, _)
BuildURLFrom(cap, params, arguments, url, i) ==
    IF i > Len(params) THEN [err |-> FALSE, param |-> Empty, url |-> url]
    ELSE LET param == params[i]
             r == Lookup(cap, param, arguments)
         IN  IF ~r.exists /\ param.Required
             THEN [err |-> TRUE, param |-> param.Identifier, url |-> Empty]
             ELSE BuildURLFrom(cap, params, arguments,
                      IF r.exists
                      THEN ReplaceAll(url, Placeholder(param.Identifier),
                                      Sprintv(r.value))
                      ELSE url,
                      i + 1)

\* buildURL: BaseURL + Path, then each path parameter in declaration order
BuildURL(ep, be, arguments) ==
    BuildURLFrom(ep.Capability, ep.PathParameters, arguments,
                 be.BaseURL \o ep.Path, 1)

\* the params slice of buildQueryParams: one "identifier=value" per present
\* query parameter, in declaration order; Required is not consulted
RECURSIVE QueryPairsFrom(_, _, _, _)
QueryPairsFrom(cap, params, arguments, i) ==
    IF i > Len(params) THEN <<>>
    ELSE LET param == params[i]
             r == Lookup(cap, param, arguments)
         IN  (IF r.exists
              THEN <<param.Identifier \o <<"=">> \o Sprintv(r.value)>>
              ELSE <<>>)
             \o QueryPairsFrom(cap, params, arguments, i + 1)

QueryPairs(ep, arguments) ==
    QueryPairsFrom(ep.Capability, ep.QueryParameters, arguments, 1)

\* buildQueryParams
BuildQueryParams(ep, arguments) == Join(QueryPairs(ep, arguments), <<"&">>)

\* body[k] = v on a Go map
MapSet(m, k, v) ==
    [x \in (DOMAIN m) \cup {k} |-> IF x = k THEN v ELSE m[x]]

EmptyMap == [x \in {} |-> Str(Empty)]

\* the loop of buildRequestBody from parameter i on
RECURSIVE BuildBodyFrom(_, _, _, _, _)
BuildBodyFrom(cap, params, arguments, body, i) ==
    IF i > Len(params) THEN [err |-> FALSE, param |-> Empty, body |-> body]
    ELSE LET param == params[i]
             r == Lookup(cap, param, arguments)
         IN  IF r.exists
             THEN BuildBodyFrom(cap, params, arguments,
                                MapSet(body, param.Identifier, r.value), i + 1)
             ELSE IF param.Required
                  THEN [err |-> TRUE, param |-> param.Identifier,
                        body |-> EmptyMap]
                  ELSE BuildBodyFrom(cap, params, arguments, body, i + 1)

BuildRequestBody_NoRequiredCheck(ep, arguments) ==
    [err |-> FALSE, param |-> Empty,
     body |-> [id \in {ep.BodyParams[i].Identifier : i \in 1..Len(ep.BodyParams)}
                     \cap DOMAIN arguments |-> arguments[id]]]

\* buildRequestBody: the mapping that is marshalled (empty: a nil body)
BuildRequestBody(ep, arguments) ==
    IF Len(ep.BodyParams) = 0
    THEN [err |-> FALSE, param |-> Empty, body |-> EmptyMap]
    ELSE BuildBodyFrom(ep.Capability, ep.BodyParams, arguments, EmptyMap, 1)

\* generateResourceURITemplate
GenerateResourceURITemplate(ep) ==
    LET uri == <<"p", "r", "o", "x", "y", ":", "/", "/">> \o ep.Name
        params == [i \in 1..Len(ep.PathParameters) |->
                      Placeholder(ep.PathParameters[i].Identifier)]
    IN  IF Len(ep.PathParameters) > 0
        THEN uri \o <<"/">> \o Join(params, <<"/">>)
        ELSE uri

\* the loop of extractArgumentsFromURI over the parts of the URI
RECURSIVE ExtractFrom(_, _, _, _)
ExtractFrom(parts, templateParts, arguments, i) ==
    IF i > Len(parts) THEN arguments
    ELSE ExtractFrom(parts, templateParts,
             IF /\ i <= Len(templateParts)
                /\ HasPrefix(templateParts[i], <<"{">>)
                /\ HasSuffix(templateParts[i], <<"}">>)
             THEN MapSet(arguments, Trim(templateParts[i], {"{", "}"}),
                         Str(parts[i]))
             ELSE arguments,
             i + 1)

\* an extraction that would match the URI against the template without its
\* scheme part (for comparison with ExtractArgumentsFromURI)
ExtractArgumentsFromURI_Shifted(ep, uri) ==
    LET parts == Split(uri, "/")
    IN  IF Len(parts) > 2
        THEN ExtractFrom(parts,
                         Tail(Split(GenerateResourceURITemplate(ep), "/")),
                         EmptyMap, 1)
        ELSE EmptyMap

\* extractArgumentsFromURI
ExtractArgumentsFromURI(ep, uri) ==
    LET parts == Split(uri, "/")
    IN  IF Len(parts) > 2
        THEN ExtractFrom(parts, Split(GenerateResourceURITemplate(ep), "/"),
                         EmptyMap, 1)
        ELSE EmptyMap

\* The argument bag a handler works on: the resource handler extracts it from
\* the request's URI, the tool and prompt handlers take the request's arguments
Arguments(ep, req) ==
    IF ep.Capability = RESOURCE THEN ExtractArgumentsFromURI(ep, req.uri)
    ELSE req.arguments

\* The handlers' steps up to http.NewRequestWithContext: buildURL, then
\* buildQueryParams, then buildRequestBody; the first error ends the handler
BuildRequest(ep, be, req) ==
    LET arguments == Arguments(ep, req)
        u == BuildURL(ep, be, arguments)
        q == BuildQueryParams(ep, arguments)
        b == BuildRequestBody(ep, arguments)
    IN  IF u.err
        THEN [ok |-> FALSE, stage |-> "url", param |-> u.param,
              url |-> Empty, body |-> EmptyMap]
        ELSE IF b.err
        THEN [ok |-> FALSE, stage |-> "body", param |-> b.param,
              url |-> Empty, body |-> EmptyMap]
        ELSE [ok |-> TRUE, stage |-> "built", param |-> Empty,
              url |-> IF Len(q) > 0 THEN u.url \o <<"?">> \o q ELSE u.url,
              body |-> b.body]

\* ------------------------------------------------------------------------
\* encoding/json on the texts of the model: objects, arrays, strings without
\* escapes, whole numbers and null, with spaces as the only white space
\* ------------------------------------------------------------------------

\* the values json.Unmarshal stores in an interface{}: nil, string, float64,
\* []interface{} and map[string]interface{}
JNull == [t |-> "null"]
JStr(s) == [t |-> "string", s |-> s]
JNum(n) == [t |-> "number", n |-> n]
JArr(items) == [t |-> "array", items |-> items]
JObj(m) == [t |-> "object", m |-> m]

Quote == "\""
Failed == [ok |-> FALSE, v |-> JNull, i |-> 0]

\* the digits' values
DigitValue(c) ==
    CASE c = "0" -> 0 [] c = "1" -> 1 [] c = "2" -> 2 [] c = "3" -> 3
      [] c = "4" -> 4 [] c = "5" -> 5 [] c = "6" -> 6 [] c = "7" -> 7
      [] c = "8" -> 8 [] OTHER -> 9
IsDigit(c) == c \in {"0", "1", "2", "3", "4", "5", "6", "7", "8", "9"}

\* the decoder's scanner skipping white space from position i
RECURSIVE SkipSpace(_, _)
SkipSpace(s, i) ==
    IF i <= Len(s) /\ s[i] = " " THEN SkipSpace(s, i + 1) ELSE i

\* the position of the next quote at or after i (0 when there is none)
RECURSIVE NextQuote(_, _)
NextQuote(s, i) ==
    IF i > Len(s) THEN 0
    ELSE IF s[i] = Quote THEN i ELSE NextQuote(s, i + 1)

\* a string literal starting at the quote at position i
ParseString(s, i) ==
    LET j == NextQuote(s, i + 1)
    IN  IF j = 0 THEN Failed
        ELSE [ok |-> TRUE, v |-> JStr(Sub(s, i + 1, j - 1)), i |-> j + 1]

\* the digits of a number from position i on, n being the value read so far
RECURSIVE ParseDigits(_, _, _)
ParseDigits(s, i, n) ==
    IF i <= Len(s) /\ IsDigit(s[i])
    THEN ParseDigits(s, i + 1, n * 10 + DigitValue(s[i]))
    ELSE [ok |-> TRUE, v |-> JNum(n), i |-> i]

\* a number starting at position i: 0, or a digit 1-9 followed by digits
ParseNumber(s, i) ==
    IF s[i] = "0" THEN [ok |-> TRUE, v |-> JNum(0), i |-> i + 1]
    ELSE ParseDigits(s, i, 0)

RECURSIVE ParseValue(_, _)
RECURSIVE ParseItems(_, _, _)
RECURSIVE ParseMembers(_, _, _)

\* the items of an array after "[" or after a comma; acc holds those read
ParseItems(s, i, acc) ==
    LET r == ParseValue(s, SkipSpace(s, i))
        j == SkipSpace(s, r.i)
    IN  IF ~r.ok \/ j > Len(s) THEN Failed
        ELSE IF s[j] = "," THEN ParseItems(s, j + 1, Append(acc, r.v))
        ELSE IF s[j] = "]"
             THEN [ok |-> TRUE, v |-> JArr(Append(acc, r.v)), i |-> j + 1]
             ELSE Failed

\* the members of an object after "{" or after a comma; a repeated key keeps
\* the last value
ParseMembers(s, i, acc) ==
    LET k == SkipSpace(s, i)
        key == IF k <= Len(s) /\ s[k] = Quote THEN ParseString(s, k)
               ELSE Failed
        c == SkipSpace(s, key.i)
        r == IF key.ok /\ c <= Len(s) /\ s[c] = ":"
             THEN ParseValue(s, SkipSpace(s, c + 1))
             ELSE Failed
        j == SkipSpace(s, r.i)
        m == [x \in (DOMAIN acc) \cup {key.v.s} |->
                 IF x = key.v.s THEN r.v ELSE acc[x]]
    IN  IF ~r.ok \/ j > Len(s) THEN Failed
        ELSE IF s[j] = "," THEN ParseMembers(s, j + 1, m)
        ELSE IF s[j] = "}" THEN [ok |-> TRUE, v |-> JObj(m), i |-> j + 1]
             ELSE Failed

\* one JSON value starting at position i
ParseValue(s, i) ==
    IF i > Len(s) THEN Failed
    ELSE IF s[i] = Quote THEN ParseString(s, i)
    ELSE IF IsDigit(s[i]) THEN ParseNumber(s, i)
    ELSE IF OccursAt(s, <<"n", "u", "l", "l">>, i)
         THEN [ok |-> TRUE, v |-> JNull, i |-> i + 4]
    ELSE IF s[i] = "["
         THEN LET j == SkipSpace(s, i + 1)
              IN  IF j <= Len(s) /\ s[j] = "]"
                  THEN [ok |-> TRUE, v |-> JArr(<<>>), i |-> j + 1]
                  ELSE ParseItems(s, i + 1, <<>>)
    ELSE IF s[i] = "{"
         THEN LET j == SkipSpace(s, i + 1)
              IN  IF j <= Len(s) /\ s[j] = "}"
                  THEN [ok |-> TRUE, v |-> JObj(<<>>), i |-> j + 1]
                  ELSE ParseMembers(s, i + 1, <<>>)
    ELSE Failed

\* json.Unmarshal(data, &v) with v an interface{}: one value and nothing but
\* white space around it
Unmarshal(s) ==
    LET r == ParseValue(s, SkipSpace(s, 1))
    IN  IF r.ok /\ SkipSpace(s, r.i) = Len(s) + 1
        THEN [ok |-> TRUE, v |-> r.v]
        ELSE [ok |-> FALSE, v |-> JNull]

\* json.Unmarshal(data, &m) with m a map[string]any: only an object or null
\* (which leaves the map nil) decodes
UnmarshalMap(s) ==
    LET r == Unmarshal(s)
    IN  IF r.ok /\ r.v.t \in {"object", "null"} THEN r
        ELSE [ok |-> FALSE, v |-> JNull]

\* the bytes of the model's texts in increasing order
Alphabet ==
    <<" ", "\"", "'", ",", "-", ".", "/", "0", "1", "2", "3", "4", "5", "6",
      "7", "8", "9", ":", "=", "?", "A", "B", "C", "D", "E", "F", "G", "H",
      "I", "J", "K", "L", "M", "N", "O", "P", "Q", "R", "S", "T", "U", "V",
      "W", "X", "Y", "Z", "[", "]", "a", "b", "c", "d", "e", "f", "g", "h",
      "i", "j", "k", "l", "m", "n", "o", "p", "q", "r", "s", "t", "u", "v",
      "w", "x", "y", "z", "{", "}">>
CodeOf ==
    [c \in {Alphabet[k] : k \in 1..Len(Alphabet)} |->
        CHOOSE k \in 1..Len(Alphabet) : Alphabet[k] = c]
Code(c) == CodeOf[c]

\* a < b for Go strings (byte-wise)
RECURSIVE Less(_, _)
Less(a, b) ==
    IF Len(b) = 0 THEN FALSE
    ELSE IF Len(a) = 0 THEN TRUE
    ELSE IF a[1] = b[1] THEN Less(Tail(a), Tail(b))
    ELSE Code(a[1]) < Code(b[1])

\* sort.Strings of a map's keys
RECURSIVE SortKeys(_)
SortKeys(keys) ==
    IF keys = {} THEN <<>>
    ELSE LET k == CHOOSE x \in keys : \A y \in keys \ {x} : Less(x, y)
         IN  <<k>> \o SortKeys(keys \ {k})

\* json.Marshal: no white space, the keys of a map in sorted order
RECURSIVE Marshal(_)
Marshal(v) ==
    CASE v.t = "null" -> <<"n", "u", "l", "l">>
      [] v.t = "string" -> <<Quote>> \o v.s \o <<Quote>>
      [] v.t = "number" -> Itoa(v.n)
      [] v.t = "array" ->
            <<"[">> \o Join([i \in 1..Len(v.items) |-> Marshal(v.items[i])],
                            <<",">>) \o <<"]">>
      [] OTHER ->
            LET ks == SortKeys(DOMAIN v.m)
            IN  <<"{">> \o Join([i \in 1..Len(ks) |->
                                   <<Quote>> \o ks[i] \o <<Quote, ":">>
                                     \o Marshal(v.m[ks[i]])], <<",">>)
                  \o <<"}">>

\* an argument value as json.Marshal sees it
ToJSON(v) == IF "str" \in DOMAIN v THEN JStr(v.str) ELSE JNum(v.num)

\* the bytes bytes.NewReader(body) is given: nil for an endpoint without body
\* parameters and for an empty mapping, else json.Marshal(body)
RequestBytes(ep, body) ==
    IF Len(ep.BodyParams) = 0 \/ DOMAIN body = {} THEN Empty
    ELSE Marshal(JObj([k \in DOMAIN body |-> ToJSON(body[k])]))

\* ------------------------------------------------------------------------
\* Response interpretation (handleResponse of the three handlers)
\* ------------------------------------------------------------------------

\* what a handler returns: a value (returns says which) or an error; the
\* fixed words of a message are kept as one element of the text
NoOut ==
    [err |-> FALSE, errText |-> Empty, returns |-> "nothing",
     isError |-> FALSE, text |-> Empty, uri |-> Empty, mime |-> Empty,
     description |-> Empty, messages |-> <<>>]

ErrorOut(text) == [NoOut EXCEPT !.err = TRUE, !.errText = text]

\* responseBody.ReadFrom(resp.Body) failed
ReadError == ErrorOut(<<"failed to read response body: ">>)

\* resp.StatusCode >= 200 && resp.StatusCode < 300
Success(status) == status >= 200 /\ status < 300

ToolHandleResponse_ErrorOn4xx(ep, status, text) ==
    IF Success(status)
    THEN [NoOut EXCEPT !.returns = "tool",
            !.text = <<"Tool '">> \o ep.Name
                       \o <<"' executed successfully. Response: ">> \o text]
    ELSE ErrorOut(<<"tool request failed with status ">> \o Itoa(status)
                    \o <<": ">> \o text)

\* HTTPToolHandler.handleResponse on a body that was read as text
ToolHandleResponse(ep, status, text) ==
    IF Success(status)
    THEN [NoOut EXCEPT !.returns = "tool",
            !.text = <<"Tool '">> \o ep.Name
                       \o <<"' executed successfully. Response: ">> \o text]
    ELSE [NoOut EXCEPT !.returns = "tool", !.isError = TRUE,
            !.text = <<"Tool '">> \o ep.Name \o <<"' failed with status ">>
                       \o Itoa(status) \o <<": ">> \o text]

ApplicationJSON == <<"application/json">>
TextPlain == <<"text/plain">>

ResourceHandleResponse_AlwaysJSON(status, text, uri) ==
    IF Success(status)
    THEN [NoOut EXCEPT !.returns = "contents", !.uri = uri, !.text = text,
                       !.mime = ApplicationJSON]
    ELSE ErrorOut(<<"resource request failed with status ">> \o Itoa(status)
                    \o <<": ">> \o text)

ResourceHandleResponse_ContentOnError(status, text, uri) ==
    [NoOut EXCEPT !.returns = "contents", !.uri = uri, !.text = text,
                  !.mime = IF Unmarshal(text).ok THEN ApplicationJSON
                           ELSE TextPlain]

\* HTTPResourceHandler.handleResponse on a body that was read as text
ResourceHandleResponse(status, text, uri) ==
    IF Success(status)
    THEN [NoOut EXCEPT !.returns = "contents", !.uri = uri, !.text = text,
                       !.mime = IF Unmarshal(text).ok THEN ApplicationJSON
                                ELSE TextPlain]
    ELSE ErrorOut(<<"resource request failed with status ">> \o Itoa(status)
                    \o <<": ">> \o text)

\* mcp.RoleUser, mcp.RoleAssistant, and the zero value of mcp.Role
RoleUser == <<"u", "s", "e", "r">>
RoleAssistant == <<"a", "s", "s", "i", "s", "t", "a", "n", "t">>
NoRole == Empty

\* the keys the prompt handler reads
KeyRole == <<"r", "o", "l", "e">>
KeyContent == <<"c", "o", "n", "t", "e", "n", "t">>
KeyType == <<"t", "y", "p", "e">>
KeyText == <<"t", "e", "x", "t">>
KeyMessages == <<"m", "e", "s", "s", "a", "g", "e", "s">>
KeyDescription == <<"d", "e", "s", "c", "r", "i", "p", "t", "i", "o", "n">>

\* strings.ToLower on the model's alphabet
LowerTable ==
    [c \in DOMAIN CodeOf |->
        IF CodeOf[c] >= CodeOf["A"] /\ CodeOf[c] <= CodeOf["Z"]
        THEN Alphabet[CodeOf[c] - CodeOf["A"] + CodeOf["a"]]
        ELSE c]
LowerOf(c) == LowerTable[c]
ToLower(s) == [i \in 1..Len(s) |-> LowerOf(s[i])]

\* a key of a decoded object holding a string
HasString(m, k) == k \in DOMAIN m /\ m[k].t = "string"

\* parsePromptMessage: nil when no content was parsed, else role and text
ParsePromptMessage(data) ==
    LET role ==
            IF KeyRole \in DOMAIN data
            THEN IF data[KeyRole].t = "string"
                 THEN IF ToLower(data[KeyRole].s) = RoleAssistant
                      THEN RoleAssistant
                      ELSE RoleUser
                 ELSE NoRole
            ELSE RoleUser
        content ==
            IF KeyContent \notin DOMAIN data THEN [nil |-> TRUE, text |-> Empty]
            ELSE IF data[KeyContent].t = "string"
                 THEN [nil |-> FALSE, text |-> data[KeyContent].s]
            ELSE IF data[KeyContent].t = "object"
                 THEN LET c == data[KeyContent].m
                      IN  IF /\ HasString(c, KeyType)
                             /\ c[KeyType].s = KeyText
                             /\ HasString(c, KeyText)
                          THEN [nil |-> FALSE, text |-> c[KeyText].s]
                          ELSE [nil |-> TRUE, text |-> Empty]
            ELSE [nil |-> TRUE, text |-> Empty]
    IN  [nil |-> content.nil, role |-> role, text |-> content.text]

\* the loop of parseStructuredPrompt over the messages array from item i on
RECURSIVE PromptMessagesFrom(_, _)
PromptMessagesFrom(items, i) ==
    IF i > Len(items) THEN <<>>
    ELSE LET msg == IF items[i].t = "object"
                    THEN ParsePromptMessage(items[i].m)
                    ELSE [nil |-> TRUE, role |-> NoRole, text |-> Empty]
         IN  (IF msg.nil THEN <<>>
              ELSE <<[role |-> msg.role, text |-> msg.text]>>)
               \o PromptMessagesFrom(items, i + 1)

\* "Generated prompt from <name>"
DefaultDescription(ep) == <<"Generated prompt from ">> \o ep.Name

\* the entries of the decoded map (a nil map has none)
Entries(v) == IF v.t = "object" THEN v.m ELSE <<>>

ParseStructuredPrompt_NoFallback(ep, v) ==
    LET data == Entries(v)
    IN  [NoOut EXCEPT !.returns = "prompt",
             !.description = DefaultDescription(ep),
             !.messages =
                 IF KeyMessages \in DOMAIN data
                    /\ data[KeyMessages].t = "array"
                 THEN PromptMessagesFrom(data[KeyMessages].items, 1)
                 ELSE <<>>]

\* a parseStructuredPrompt that would put each surviving message in front of
\* the earlier ones (for comparison with ParseStructuredPrompt)
ParseStructuredPrompt_LastFirst(ep, v) ==
    LET data == Entries(v)
        description ==
            IF HasString(data, KeyDescription) THEN data[KeyDescription].s
            ELSE DefaultDescription(ep)
        messages ==
            IF KeyMessages \in DOMAIN data /\ data[KeyMessages].t = "array"
            THEN PromptMessagesFrom(data[KeyMessages].items, 1)
            ELSE <<>>
    IN  [NoOut EXCEPT !.returns = "prompt", !.description = description,
             !.messages =
                 IF Len(messages) = 0
                 THEN <<[role |-> RoleUser, text |-> Marshal(v)]>>
                 ELSE [i \in 1..Len(messages) |->
                          messages[Len(messages) + 1 - i]]]

\* parseStructuredPrompt on the decoded map v (an object, or null for a nil
\* map)
ParseStructuredPrompt(ep, v) ==
    LET data == Entries(v)
        description ==
            IF HasString(data, KeyDescription) THEN data[KeyDescription].s
            ELSE DefaultDescription(ep)
        messages ==
            IF KeyMessages \in DOMAIN data /\ data[KeyMessages].t = "array"
            THEN PromptMessagesFrom(data[KeyMessages].items, 1)
            ELSE <<>>
    IN  [NoOut EXCEPT !.returns = "prompt", !.description = description,
             !.messages =
                 IF Len(messages) = 0
                 THEN <<[role |-> RoleUser, text |-> Marshal(v)]>>
                 ELSE messages]

\* HTTPPromptHandler.handleResponse on a body that was read as text
PromptHandleResponse(ep, status, text) ==
    IF Success(status)
    THEN LET d == UnmarshalMap(text)
         IN  IF d.ok THEN ParseStructuredPrompt(ep, d.v)
             ELSE [NoOut EXCEPT !.returns = "prompt",
                       !.description = DefaultDescription(ep),
                       !.messages = <<[role |-> RoleUser, text |-> text]>>]
    ELSE ErrorOut(<<"prompt request failed with status ">> \o Itoa(status)
                    \o <<": ">> \o text)

\* handleResponse: the body is read first; a body the transport has closed
\* cannot be read unless readable says so (an empty body may still read as
\* empty)
HandleResponse(ep, req, status, text, closed, readable) ==
    IF closed /\ ~readable THEN ReadError
    ELSE IF ep.Capability = TOOL THEN ToolHandleResponse(ep, status, text)
    ELSE IF ep.Capability = RESOURCE
         THEN ResourceHandleResponse(status, text, req.uri)
    ELSE PromptHandleResponse(ep, status, text)

\* ------------------------------------------------------------------------
\* Header assembly (addHeaders of the three handlers)
\* ------------------------------------------------------------------------

\* a Header declaration
Header(type, name, value) == [Type |-> type, Name |-> name, Value |-> value]

UpperTable ==
    [c \in DOMAIN CodeOf |->
        IF CodeOf[c] >= CodeOf["a"] /\ CodeOf[c] <= CodeOf["z"]
        THEN Alphabet[CodeOf[c] - CodeOf["a"] + CodeOf["A"]]
        ELSE c]
UpperOf(c) == UpperTable[c]

\* textproto.CanonicalMIMEHeaderKey, which http.Header.Set applies to the
\* name: the first letter and each letter after a hyphen in upper case, the
\* others in lower case
CanonicalMIMEHeaderKey(name) ==
    [i \in 1..Len(name) |->
        IF i = 1 \/ name[i - 1] = "-" THEN UpperOf(name[i])
        ELSE LowerOf(name[i])]

\* req.Header.Set(name, value)
HeaderSet(h, name, value) == MapSet(h, CanonicalMIMEHeaderKey(name), value)

NoHeaders == [x \in {} |-> Empty]

\* the loop over backend.DefaultHeaders from header i on
RECURSIVE DefaultHeadersFrom(_, _, _)
DefaultHeadersFrom(headers, h, i) ==
    IF i > Len(headers) THEN h
    ELSE DefaultHeadersFrom(headers,
             HeaderSet(h, headers[i].Name, headers[i].Value), i + 1)

\* the loop over endpoint.Headers from header i on
RECURSIVE EndpointHeadersFrom(_, _, _, _)
EndpointHeadersFrom(headers, arguments, h, i) ==
    IF i > Len(headers) THEN h
    ELSE LET header == headers[i]
         IN  EndpointHeadersFrom(headers, arguments,
                 IF header.Type = CONSTANT_
                 THEN HeaderSet(h, header.Name, header.Value)
                 ELSE IF header.Type = DYNAMIC
                         /\ header.Name \in DOMAIN arguments
                 THEN HeaderSet(h, header.Name,
                                Sprintv(arguments[header.Name]))
                 ELSE h,
                 i + 1)

ContentType == <<"C", "o", "n", "t", "e", "n", "t", "-", "T", "y", "p", "e">>

AddHeaders_NoForcedContentType(ep, be, arguments) ==
    EndpointHeadersFrom(ep.Headers, arguments,
        DefaultHeadersFrom(be.DefaultHeaders, NoHeaders, 1), 1)

\* addHeaders: the default headers, the endpoint's headers, then the forced
\* content type of an endpoint with body parameters
AddHeaders(ep, be, arguments) ==
    LET h == EndpointHeadersFrom(ep.Headers, arguments,
                 DefaultHeadersFrom(be.DefaultHeaders, NoHeaders, 1), 1)
    IN  IF Len(ep.BodyParams) > 0
        THEN HeaderSet(h, ContentType, ApplicationJSON)
        ELSE h

\* ------------------------------------------------------------------------
\* Resilient transport: CircuitBreaker
\* ------------------------------------------------------------------------

\* one tick of the model's clock is one second
RetryDelay == 1

\* NewCircuitBreaker(maxFailures, resetTimeout); mu is the breaker's mutex
NewCircuitBreaker(maxFailures, resetTimeout) ==
    [state |-> "closed", failureCount |-> 0, lastFailTime |-> 0,
     maxFailures |-> maxFailures, resetTimeout |-> resetTimeout,
     mu |-> "unlocked"]

\* cb.mu.Lock / cb.mu.RLock return once no writer holds the mutex
Acquirable(b) == b.mu = "unlocked"
\* cb.mu.Lock()
Lock(b) == [b EXCEPT !.mu = "locked"]

Unlock_Forgotten(b) == b

\* defer cb.mu.Unlock(): the method returns with the mutex released
Unlock(b) == [b EXCEPT !.mu = "unlocked"]

CanExecute_AtTimeout(b, t) ==
    IF b.state = "closed" THEN TRUE
    ELSE IF b.state = "open" /\ t - b.lastFailTime >= b.resetTimeout THEN TRUE
    ELSE FALSE

\* CircuitBreaker.CanExecute at time t (a read under the read lock)
CanExecute(b, t) ==
    IF b.state = "closed" THEN TRUE
    ELSE IF b.state = "open" /\ t - b.lastFailTime > b.resetTimeout THEN TRUE
    ELSE FALSE

\* a RecordSuccess that would close the breaker and keep the count (for
\* comparison with RecordSuccess)
RecordSuccess_KeepsCount(b) ==
    Unlock([Lock(b) EXCEPT !.state = "closed"])

\* CircuitBreaker.RecordSuccess
RecordSuccess(b) ==
    Unlock([Lock(b) EXCEPT !.failureCount = 0, !.state = "closed"])

RecordFailure_OffByOne(b, t) ==
    [b EXCEPT !.failureCount = b.failureCount + 1,
              !.lastFailTime = t,
              !.state = IF b.failureCount + 1 > b.maxFailures
                        THEN "open" ELSE b.state]

\* a RecordFailure without the mutex, whose increment is lost when another
\* failure has been counted since it read the count (for comparison with
\* RecordFailure)
RecordFailure_LostUpdate(b, t) ==
    LET count == IF b.failureCount = 0 THEN 1 ELSE b.failureCount
    IN  [b EXCEPT !.failureCount = count,
                  !.lastFailTime = t,
                  !.state = IF count >= b.maxFailures THEN "open" ELSE b.state]

\* CircuitBreaker.RecordFailure at time t
RecordFailure(b, t) ==
    Unlock([Lock(b) EXCEPT !.failureCount = b.failureCount + 1,
                           !.lastFailTime = t,
                           !.state = IF b.failureCount + 1 >= b.maxFailures
                                     THEN "open" ELSE b.state])

\* ------------------------------------------------------------------------
\* Resilient transport: the retry loop's tests
\* ------------------------------------------------------------------------

Accepted_Upto500(a) == ~a.err /\ a.status <= 500

Accepted_Below400(a) == ~a.err /\ a.status < 400

\* err == nil && resp.StatusCode < 500: the attempt ends the call
Accepted(a) == ~a.err /\ a.status < 500

MoreAttempts_OneMore(cfg, attempt) == attempt <= cfg.MaxRetries

\* attempt < c.config.MaxRetries: the loop sleeps and tries again
MoreAttempts(cfg, attempt) == attempt < cfg.MaxRetries

Backoff_Constant(cfg, attempt) == cfg.RetryDelay

\* c.config.RetryDelay * time.Duration(attempt+1)
Backoff(cfg, attempt) == cfg.RetryDelay * (attempt + 1)

\* ------------------------------------------------------------------------
\* State
\* ------------------------------------------------------------------------

VARIABLES
    endpoint,     \* the Endpoint declaration the handler was created for
    backend,      \* the Backend declaration
    request,      \* what the caller sends: [arguments, uri]
    served,       \* what the backend answers with: [statuses, body]
    config,       \* the HTTPClient's ClientConfig: [MaxRetries, RetryDelay]
    clientNames,  \* per goroutine, the Name of the endpoint its handler was
                  \* created for: the clientName it passes to DoRequest
    construction, \* the NewServerFromConfig call that made the Proxy: its
                  \* configuration, its position and what it returned
    cb,           \* the ClientManager's CircuitBreaker
    now,          \* the clock
    inv,          \* the handler invocations, one record per goroutine
    callsLeft,    \* invocations that may still start
    consecFailed, \* history: exhausted-retry failures recorded since the last
                  \* recorded success (or since the breaker was created)
    proxy         \* the Proxy that serves the handlers, and its Start call

\* what a behaviour never changes: the declarations, the caller's request, the
\* backend's answers, the client configuration, the handlers' names and,
\* once the Proxy serves, how it was constructed
setup == <<endpoint, backend, request, served, config, clientNames,
           construction>>

vars == <<endpoint, backend, request, served, config, clientNames,
          construction, cb, now,
          inv, callsLeft, consecFailed, proxy>>

\* the goroutines that run handler invocations: two run concurrently
Invocations == {1, 2}

\* the Endpoint declaration of the handler that goroutine p runs: the
\* handlers of a behaviour differ in the names of their endpoints only
HandlerEndpoint(p) == [endpoint EXCEPT !.Name = clientNames[p]]

\* what one network attempt (http.Client.Do) can return: a transport error or
\* a response with a status code
TransportError == [err |-> TRUE, status |-> 0]
Response(status) == [err |-> FALSE, status |-> status]
Statuses == {200, 404, 500, 503}
Outcomes == {TransportError} \cup {Response(st) : st \in served.statuses}

NoResult == [kind |-> "none", stage |-> "", param |-> Empty, status |-> 0,
             attempts |-> 0, closed |-> FALSE]

\* a goroutine that takes no invocation in this behaviour
Off == [pc |-> "off"]

\* an invocation that has not started
Idle ==
    [pc |-> "idle", route |-> "", built |-> FALSE, url |-> Empty,
     body |-> EmptyMap, gate |-> "", trial |-> FALSE, attempt |-> 0,
     answers |-> <<>>, sleeps |-> <<>>, wakeAt |-> 0, cancelled |-> FALSE,
     recorded |-> <<>>, result |-> NoResult, bytes |-> Empty,
     reader |-> Empty, headers |-> NoHeaders, client |-> Empty,
     out |-> NoOut]

\* the handler returned an error from buildURL or buildRequestBody
BuildError(b) == [NoResult EXCEPT !.kind = "build_error", !.stage = b.stage,
                                  !.param = b.param]
\* DoWithCircuitBreaker returned "circuit breaker is open"
CircuitOpen == [NoResult EXCEPT !.kind = "circuit_open", !.stage = "http"]
\* the transport returned an error: the handler returns "HTTP request failed"
\* (n attempts were made; the last one was a transport error)
HTTPError(n) == [NoResult EXCEPT !.kind = "http_error", !.stage = "http",
                                 !.attempts = n]
\* the transport returned a response, which handleResponse interprets; closed
\* tells whether the transport had already closed its body
Responded(status, n, closed) ==
    [NoResult EXCEPT !.kind = "response", !.stage = "response",
                     !.status = status, !.attempts = n, !.closed = closed]

\* the errors the handler returns before it has a response
BuildErrorOut(b) ==
    ErrorOut((IF b.stage = "url"
              THEN <<"failed to build URL: required path parameter '">>
              ELSE <<"failed to build request body: required body parameter '">>)
             \o b.param \o <<"' not provided">>)
CircuitOpenOut == ErrorOut(<<"HTTP request failed: circuit breaker is open">>)
TransportErrorOut == ErrorOut(<<"HTTP request failed: ">>)
ExhaustedOut(cfg) ==
    ErrorOut(<<"HTTP request failed: request failed after ">>
             \o Itoa(cfg.MaxRetries + 1) \o <<" attempts: ">>)

\* ------------------------------------------------------------------------
\* Proxy: Start, the server goroutine, Client
\* ------------------------------------------------------------------------

\* the calls of Start's main path that can return an error, and the server
\* goroutine's ListenAndServe, whose error is only logged
FaultNewSSE == "transport.NewSSE()"
FaultTransportStart == "transport.Start()"
FaultInitialize == "client.Initialize()"
FaultListenAndServe == "ListenAndServe"
StartFaults == {FaultNewSSE, FaultTransportStart, FaultInitialize}
NoFault == "none"

\* a Proxy on which Start has not been called. server: the HTTP server of the
\* goroutine ("down", "starting", "listening", "failed", "stopped");
\* transport: s.transport ("nil", "created", "started"); client: s.client
\* ("nil", "created", "initialized"); result: what Start returned ("none"
\* while it has not returned, "nil", or the call its error is wrapped with);
\* dialed: history, what the server was when transport.Start connected to it
\* ("" while it has not); close: the Close call ("none", "waiting" in
\* s.wg.Wait, "returned"); faults: the calls that may fail in this behaviour
NewProxy(faults) ==
    [pc |-> "idle", server |-> "down", transport |-> "nil", client |-> "nil",
     result |-> "none", dialed |-> "", close |-> "none", faults |-> faults]

\* Start's main path after the goroutine is launched, when the call named by
\* fault fails (NoFault: none does). transport.Start and Initialize talk to
\* the proxy's own server, so they also fail while it is not listening.
\* s.transport is assigned before transport.Start, s.client before Initialize
StartMainPath(s, fault) ==
    IF fault = FaultNewSSE
    THEN [s EXCEPT !.pc = "returned", !.result = FaultNewSSE]
    ELSE IF fault = FaultTransportStart \/ s.server # "listening"
    THEN [s EXCEPT !.pc = "returned", !.transport = "created",
                   !.dialed = s.server, !.result = FaultTransportStart]
    ELSE IF fault = FaultInitialize
    THEN [s EXCEPT !.pc = "returned", !.transport = "started",
                   !.dialed = s.server, !.client = "created",
                   !.result = FaultInitialize]
    ELSE [s EXCEPT !.pc = "returned", !.transport = "started",
                   !.dialed = s.server, !.client = "initialized",
                   !.result = "nil"]

\* Close up to s.wg.Wait: a transport that is not nil is closed, and
\* s.transport and s.client are set to nil
CloseSession(s) ==
    IF s.transport # "nil"
    THEN [s EXCEPT !.transport = "nil", !.client = "nil", !.close = "waiting"]
    ELSE [s EXCEPT !.close = "waiting"]

\* s.wg.Wait returns when the server goroutine has called s.wg.Done, which it
\* does after httpServer.Shutdown
WaitGroupDone(s) == s.server = "stopped"

\* Client(): the self-held client, as it is
Client(s) == s.client

\* ------------------------------------------------------------------------
\* Actions
\* ------------------------------------------------------------------------

\* a handler that would take the arguments out of the request while building
\* (for comparison with Start)
Start_ConsumesArguments(p) ==
    /\ proxy.server = "listening"
    /\ inv[p].pc = "idle"
    /\ callsLeft > 0
    /\ callsLeft' = callsLeft - 1
    /\ LET h == HandlerEndpoint(p)
           b == BuildRequest(h, backend, request)
           viaManager == h.Capability = RESOURCE
           sent == [Idle EXCEPT !.built = TRUE, !.url = b.url,
                       !.body = b.body,
                       !.bytes = RequestBytes(h, b.body),
                       !.reader = RequestBytes(h, b.body),
                       !.headers = AddHeaders(h, backend,
                                       Arguments(h, request)),
                       !.client = IF viaManager THEN h.Name ELSE Empty,
                       !.route = IF viaManager THEN "manager" ELSE "direct"]
       IN  /\ (b.ok /\ viaManager) => Acquirable(cb)
           /\ inv' = [inv EXCEPT ![p] =
                IF ~b.ok
                THEN [Idle EXCEPT !.pc = "done", !.result = BuildError(b),
                                  !.out = BuildErrorOut(b)]
                ELSE IF viaManager /\ ~CanExecute(cb, now)
                THEN [sent EXCEPT !.pc = "done", !.gate = "rejected",
                                  !.result = CircuitOpen,
                                  !.out = CircuitOpenOut]
                ELSE [sent EXCEPT !.pc = "attempt",
                                  !.gate = IF viaManager THEN "passed" ELSE "",
                                  !.trial = viaManager /\ cb.state = "open"]]
    /\ request' = [arguments |-> EmptyMap, uri |-> Empty]
    /\ UNCHANGED <<endpoint, backend, served, config, clientNames,
                   construction, proxy, cb, now, consecFailed>>

\* Handler, from its entry to the first network attempt (the proxy's server
\* hands it the call, so the server is listening): the request is built; the
\* resource handler goes through ClientManager.DoRequest, whose
\* DoWithCircuitBreaker first asks the breaker (CanExecute takes the read
\* lock); the tool and prompt handlers call their own http.Client
Start(p) ==
    /\ proxy.server = "listening"
    /\ inv[p].pc = "idle"
    /\ callsLeft > 0
    /\ callsLeft' = callsLeft - 1
    /\ LET h == HandlerEndpoint(p)
           b == BuildRequest(h, backend, request)
           viaManager == h.Capability = RESOURCE
           sent == [Idle EXCEPT !.built = TRUE, !.url = b.url,
                       !.body = b.body,
                       !.bytes = RequestBytes(h, b.body),
                       !.reader = RequestBytes(h, b.body),
                       !.headers = AddHeaders(h, backend,
                                       Arguments(h, request)),
                       !.client = IF viaManager THEN h.Name ELSE Empty,
                       !.route = IF viaManager THEN "manager" ELSE "direct"]
       IN  /\ (b.ok /\ viaManager) => Acquirable(cb)
           /\ inv' = [inv EXCEPT ![p] =
                IF ~b.ok
                THEN [Idle EXCEPT !.pc = "done", !.result = BuildError(b),
                                  !.out = BuildErrorOut(b)]
                ELSE IF viaManager /\ ~CanExecute(cb, now)
                THEN [sent EXCEPT !.pc = "done", !.gate = "rejected",
                                  !.result = CircuitOpen,
                                  !.out = CircuitOpenOut]
                ELSE [sent EXCEPT !.pc = "attempt",
                                  !.gate = IF viaManager THEN "passed" ELSE "",
                                  !.trial = viaManager /\ cb.state = "open"]]
    /\ UNCHANGED <<setup, proxy, cb, now, consecFailed>>

\* what is left to read of the request's body (the bytes.Reader given to
\* http.NewRequestWithContext) after an attempt of invocation record i was
\* answered a: a response means the body was written and the reader is at
\* its end; a transport error may come before or after the body was written.
\* Nothing rewinds the reader between two calls of c.client.Do
Remaining(i, a) == IF a.err THEN {i.reader, Empty} ELSE {Empty}

\* a retry loop that would record every failed attempt on the breaker (for
\* comparison with ManagerAttemptReturn)
ManagerAttemptReturn_RecordsEach(p, a, readable) ==
    LET i == inv[p]
        n == Len(i.answers) + 1
    IN  IF Accepted(a)
        THEN /\ Acquirable(cb)
             /\ cb' = RecordSuccess(cb)
             /\ consecFailed' = 0
             /\ inv' = [inv EXCEPT ![p] =
                   [i EXCEPT !.pc = "done", !.answers = Append(@, a),
                             !.recorded = Append(@, "success"),
                             !.reader = Empty,
                             !.result = Responded(a.status, n, FALSE),
                             !.out = HandleResponse(HandlerEndpoint(p),
                                         request, a.status, served.body, FALSE,
                                         readable)]]
        ELSE IF MoreAttempts(config, i.attempt)
        THEN /\ \E left \in Remaining(i, a) :
                   inv' = [inv EXCEPT ![p] =
                      [i EXCEPT !.pc = "sleep", !.answers = Append(@, a),
                                !.sleeps = Append(@, Backoff(config, i.attempt)),
                                !.recorded = Append(@, "failure"),
                                !.reader = left,
                                !.wakeAt = now + Backoff(config, i.attempt)]]
             /\ cb' = RecordFailure(cb, now)
             /\ UNCHANGED consecFailed
        ELSE /\ Acquirable(cb)
             /\ cb' = RecordFailure(cb, now)
             /\ consecFailed' = consecFailed + 1
             /\ inv' = [inv EXCEPT ![p] =
                   [i EXCEPT !.pc = "done", !.answers = Append(@, a),
                             !.recorded = Append(@, "failure"),
                             !.reader = Empty,
                             !.result = IF a.err THEN HTTPError(n)
                                        ELSE Responded(a.status, n, TRUE),
                             !.out = IF a.err THEN ExhaustedOut(config)
                                     ELSE HandleResponse(HandlerEndpoint(p),
                                              request, a.status, served.body, TRUE,
                                              readable)]]

\* the retry loop's decision after an attempt of DoWithCircuitBreaker returned
\* answer a: success ends the call, a retryable failure sleeps or, after the
\* last attempt, ends the call; the handler then interprets what it was given
\* (readable: whether a body the loop has closed can still be read)
ManagerAttemptReturn(p, a, readable) ==
    LET i == inv[p]
        n == Len(i.answers) + 1
    IN  IF Accepted(a)
        THEN /\ Acquirable(cb)
             /\ cb' = RecordSuccess(cb)
             /\ consecFailed' = 0
             /\ inv' = [inv EXCEPT ![p] =
                   [i EXCEPT !.pc = "done", !.answers = Append(@, a),
                             !.recorded = Append(@, "success"),
                             !.reader = Empty,
                             !.result = Responded(a.status, n, FALSE),
                             !.out = HandleResponse(HandlerEndpoint(p),
                                         request, a.status, served.body, FALSE,
                                         readable)]]
        ELSE IF MoreAttempts(config, i.attempt)
        THEN /\ \E left \in Remaining(i, a) :
                   inv' = [inv EXCEPT ![p] =
                      [i EXCEPT !.pc = "sleep", !.answers = Append(@, a),
                                !.sleeps = Append(@, Backoff(config, i.attempt)),
                                !.reader = left,
                                !.wakeAt = now + Backoff(config, i.attempt)]]
             /\ UNCHANGED <<cb, consecFailed>>
        ELSE /\ Acquirable(cb)
             /\ cb' = RecordFailure(cb, now)
             /\ consecFailed' = consecFailed + 1
             /\ inv' = [inv EXCEPT ![p] =
                   [i EXCEPT !.pc = "done", !.answers = Append(@, a),
                             !.recorded = Append(@, "failure"),
                             !.reader = Empty,
                             !.result = IF a.err THEN HTTPError(n)
                                        ELSE Responded(a.status, n, TRUE),
                             !.out = IF a.err THEN ExhaustedOut(config)
                                     ELSE HandleResponse(HandlerEndpoint(p),
                                              request, a.status, served.body, TRUE,
                                              readable)]]

\* the tool and prompt handlers' h.client.Do returned answer a
DirectAttemptReturn(p, a) ==
    LET i == inv[p]
    IN  /\ inv' = [inv EXCEPT ![p] =
              [i EXCEPT !.pc = "done", !.answers = Append(@, a),
                        !.reader = Empty,
                        !.result = IF a.err THEN HTTPError(1)
                                   ELSE Responded(a.status, 1, FALSE),
                        !.out = IF a.err THEN TransportErrorOut
                                ELSE HandleResponse(HandlerEndpoint(p),
                                         request, a.status, served.body, FALSE,
                                         FALSE)]]
        /\ UNCHANGED <<cb, consecFailed>>

\* a network attempt returns; a request whose context is cancelled returns
\* the context's error, and so does one whose body reader holds fewer bytes
\* than its ContentLength. Reading a response body after Close fails, except
\* that an empty body may also read as empty. When the call has returned the
\* request is dropped and its reader with it
AttemptReturn(p) ==
    /\ inv[p].pc = "attempt"
    /\ \E o \in Outcomes :
          LET a == IF inv[p].cancelled \/ inv[p].reader # inv[p].bytes
                   THEN TransportError ELSE o
          IN  IF inv[p].route = "manager"
              THEN \E readable \in {FALSE, served.body = Empty} :
                      ManagerAttemptReturn(p, a, readable)
              ELSE DirectAttemptReturn(p, a)
    /\ UNCHANGED <<setup, proxy, now, callsLeft>>

\* time.Sleep returns and the loop starts the next attempt
Wake(p) ==
    /\ inv[p].pc = "sleep"
    /\ now >= inv[p].wakeAt
    /\ inv' = [inv EXCEPT ![p].pc = "attempt", ![p].attempt = @ + 1]
    /\ UNCHANGED <<setup, proxy, cb, now, callsLeft,
                   consecFailed>>

\* the caller cancels the invocation's context while the handler is running
Cancel(p) ==
    /\ inv[p].pc \in {"attempt", "sleep"}
    /\ ~inv[p].cancelled
    /\ inv' = [inv EXCEPT ![p].cancelled = TRUE]
    /\ UNCHANGED <<setup, proxy, cb, now, callsLeft,
                   consecFailed>>

\* the handler has returned; its goroutine is free for another invocation
Return(p) ==
    /\ inv[p].pc = "done"
    /\ inv' = [inv EXCEPT ![p] = Idle]
    /\ UNCHANGED <<setup, proxy, cb, now, callsLeft,
                   consecFailed>>

\* a second passes
Tick ==
    /\ now < MaxTime
    /\ now' = now + 1
    /\ UNCHANGED <<setup, proxy, cb, inv, callsLeft,
                   consecFailed>>

\* Start is called: s.wg.Add(1) and the server goroutine is launched
ProxyStart ==
    /\ proxy.pc = "idle"
    /\ proxy' = [proxy EXCEPT !.pc = "connecting", !.server = "starting"]
    /\ UNCHANGED <<setup, cb, now, inv, callsLeft, consecFailed>>

\* the goroutine's httpServer.ListenAndServe: the server listens, or the call
\* fails and the error is logged
ListenAndServe ==
    /\ proxy.server = "starting"
    /\ \E fails \in {FALSE, (FaultListenAndServe \in proxy.faults)} :
          proxy' = [proxy EXCEPT !.server = IF fails THEN "failed"
                                            ELSE "listening"]
    /\ UNCHANGED <<setup, cb, now, inv, callsLeft, consecFailed>>

\* Start's main path runs to its return
ProxyStartReturn ==
    /\ proxy.pc = "connecting"
    /\ \E fault \in {NoFault} \cup (proxy.faults \cap StartFaults) :
          proxy' = StartMainPath(proxy, fault)
    /\ UNCHANGED <<setup, cb, now, inv, callsLeft, consecFailed>>

\* the caller cancels ctx: the goroutine calls httpServer.Shutdown, which
\* returns once the handlers in flight have returned
Shutdown ==
    /\ proxy.server \in {"starting", "listening", "failed"}
    /\ \A p \in Invocations : inv[p].pc \in {"idle", "off"}
    /\ proxy' = [proxy EXCEPT !.server = "stopped"]
    /\ UNCHANGED <<setup, cb, now, inv, callsLeft, consecFailed>>

\* Close is called after Start has returned, and waits for the goroutine
ProxyClose ==
    /\ proxy.pc = "returned"
    /\ proxy.close = "none"
    /\ proxy' = CloseSession(proxy)
    /\ UNCHANGED <<setup, cb, now, inv, callsLeft, consecFailed>>

\* Close returns
ProxyCloseReturn ==
    /\ proxy.close = "waiting"
    /\ WaitGroupDone(proxy)
    /\ proxy' = [proxy EXCEPT !.close = "returned"]
    /\ UNCHANGED <<setup, cb, now, inv, callsLeft, consecFailed>>

Next ==
    \/ ProxyStart
    \/ ListenAndServe
    \/ ProxyStartReturn
    \/ Shutdown
    \/ ProxyClose
    \/ ProxyCloseReturn
    \/ \E p \in Invocations : Start(p)
    \/ \E p \in Invocations : AttemptReturn(p)
    \/ \E p \in Invocations : Wake(p)
    \/ \E p \in Invocations : Cancel(p)
    \/ \E p \in Invocations : Return(p)
    \/ Tick

\* ------------------------------------------------------------------------
\* Constructing the server from a configuration (proxy.go)
\* ------------------------------------------------------------------------

\* A configuration is cfg.Backends: a sequence of backends, each the sequence
\* of its Endpoints, each endpoint given by its Capability. An endpoint is
\* identified by its place <<b, k>>: endpoint k of backend b

\* a Proxy before setupEndpointsFromConfig: nothing is registered
EmptyRegistry == [tools |-> <<>>, resources |-> <<>>, prompts |-> <<>>]

\* setupBackendEndpoints with one loop variable for all iterations: every
\* handler of a backend holds the address of the same variable, which ends
\* as the backend's last endpoint
RECURSIVE SetupBackendEndpoints_SharedVariable(_, _, _, _)
SetupBackendEndpoints_SharedVariable(s, cfg, b, k) ==
    IF k > Len(cfg[b])
    THEN [s |-> s, err |-> FALSE]
    ELSE LET capability == cfg[b][k]
             handler == [endpoint |-> <<b, Len(cfg[b])>>, backend |-> b]
         IN  CASE capability = TOOL ->
                    SetupBackendEndpoints_SharedVariable(
                        [s EXCEPT !.tools = Append(@, handler)], cfg, b, k + 1)
               [] capability = RESOURCE ->
                    SetupBackendEndpoints_SharedVariable(
                        [s EXCEPT !.resources = Append(@, handler)],
                        cfg, b, k + 1)
               [] capability = PROMPT ->
                    SetupBackendEndpoints_SharedVariable(
                        [s EXCEPT !.prompts = Append(@, handler)],
                        cfg, b, k + 1)
               [] OTHER -> [s |-> s, err |-> TRUE]

\* setupBackendEndpoints(backend), from endpoint k of backend b on. Each
\* iteration has its own endpoint variable (go.mod: go 1.24.2), so the handler
\* made from &endpoint holds a copy of endpoint <<b, k>>, and it holds the
\* backend pointer of the configuration. setupToolEndpoint,
\* setupResourceEndpoint (AddResourceTemplate and AddResource append to the
\* same s.resources) and setupPromptEndpoint append and return nil; any other
\* capability returns an error at once
RECURSIVE SetupBackendEndpoints(_, _, _, _)
SetupBackendEndpoints(s, cfg, b, k) ==
    IF k > Len(cfg[b])
    THEN [s |-> s, err |-> FALSE]
    ELSE LET capability == cfg[b][k]
             handler == [endpoint |-> <<b, k>>, backend |-> b]
         IN  CASE capability = TOOL ->
                    SetupBackendEndpoints(
                        [s EXCEPT !.tools = Append(@, handler)], cfg, b, k + 1)
               [] capability = RESOURCE ->
                    SetupBackendEndpoints(
                        [s EXCEPT !.resources = Append(@, handler)],
                        cfg, b, k + 1)
               [] capability = PROMPT ->
                    SetupBackendEndpoints(
                        [s EXCEPT !.prompts = Append(@, handler)],
                        cfg, b, k + 1)
               [] OTHER -> [s |-> s, err |-> TRUE]

\* setupEndpointsFromConfig(cfg), from backend b on: the backends in order,
\* stopping at the first error
RECURSIVE SetupEndpointsFromConfig(_, _, _)
SetupEndpointsFromConfig(s, cfg, b) ==
    IF b > Len(cfg)
    THEN [s |-> s, err |-> FALSE]
    ELSE LET r == SetupBackendEndpoints(s, cfg, b, 1)
         IN  IF r.err THEN r ELSE SetupEndpointsFromConfig(r.s, cfg, b + 1)

\* NewServerFromConfig(cfg): (server, nil), or (nil, err) when the setup
\* failed. server is the sequence of the one Proxy returned, empty for nil
NewServerFromConfig(cfg) ==
    LET r == SetupEndpointsFromConfig(EmptyRegistry, cfg, 1)
    IN  IF r.err THEN [server |-> <<>>, err |-> TRUE]
        ELSE [server |-> <<r.s>>, err |-> FALSE]

\* a NewServerFromConfig call that has not run yet, and one that has returned
NotConstructed(cfg) ==
    [cfg |-> cfg, pc |-> "new", result |-> [server |-> <<>>, err |-> FALSE]]

Constructed(cfg) ==
    [cfg |-> cfg, pc |-> "returned", result |-> NewServerFromConfig(cfg)]

\* ------------------------------------------------------------------------
\* Initial states
\* ------------------------------------------------------------------------

\* an Endpoint declaration
Endpoint(cap, name, path, pathParams, queryParams, bodyParams) ==
    [Capability |-> cap, Name |-> name, Path |-> path,
     Mode |-> IF cap = TOOL THEN WEBHOOK ELSE "",
     PathParameters |-> pathParams, QueryParameters |-> queryParams,
     BodyParams |-> bodyParams, Headers |-> <<>>]

\* a Backend declaration
Backend(baseURL, defaultHeaders) ==
    [BaseURL |-> baseURL, DefaultHeaders |-> defaultHeaders]

\* a backend that answers every request with the body "ok" and one of Statuses
PlainBody == <<"o", "k">>
PlainServed == [statuses |-> Statuses, body |-> PlainBody]

Name_r == <<"r">>
BaseURL_h == <<"h", "t", "t", "p", ":", "/", "/", "h">>
ProxyURI(name) == <<"p", "r", "o", "x", "y", ":", "/", "/">> \o name

\* NewHTTPClient(config) for the configurations with MaxRetries up to r
ClientConfigs(r) ==
    {[MaxRetries |-> k, RetryDelay |-> RetryDelay] : k \in 0..r}
\* the breakers a ClientManager may hold
Breakers ==
    {NewCircuitBreaker(m, t) : m \in 1..MaxFailuresBound,
                               t \in 1..MaxResetTimeout}

\* an endpoint without parameters, of each capability
PlainEndpoints ==
    {Endpoint(cap, Name_r, <<"/", "s">>, <<>>, <<>>, <<>>) :
        cap \in {RESOURCE, TOOL, PROMPT}}

\* Transport-centred initial states: endpoints without parameters, every
\* client configuration, all invocations free to run
Init ==
    /\ endpoint \in PlainEndpoints
    /\ backend = Backend(BaseURL_h, <<>>)
    /\ served = PlainServed
    /\ request = [arguments |-> EmptyMap, uri |-> ProxyURI(Name_r)]
    /\ config \in ClientConfigs(ConcurrentRetriesBound)
    /\ cb \in Breakers
    /\ now = 0
    /\ inv = [p \in Invocations |-> Idle]
    /\ callsLeft = MaxCalls
    /\ consecFailed = 0
    /\ proxy = NewProxy({})
    /\ clientNames = [p \in Invocations |-> endpoint.Name]
    /\ construction = Constructed(<<<<endpoint.Capability>>>>)

Spec == Init /\ [][Next]_vars

\* Retry-centred initial states: one goroutine runs the invocations one after
\* the other, with every client configuration up to MaxRetriesBound
InitRetry ==
    /\ endpoint \in PlainEndpoints
    /\ backend = Backend(BaseURL_h, <<>>)
    /\ served = PlainServed
    /\ request = [arguments |-> EmptyMap, uri |-> ProxyURI(Name_r)]
    /\ config \in ClientConfigs(MaxRetriesBound)
    /\ cb \in Breakers
    /\ now = 0
    /\ inv = [p \in Invocations |-> IF p = 1 THEN Idle ELSE Off]
    /\ callsLeft = MaxCalls
    /\ consecFailed = 0
    /\ proxy = NewProxy({})
    /\ clientNames = [p \in Invocations |-> endpoint.Name]
    /\ construction = Constructed(<<<<endpoint.Capability>>>>)

SpecRetry == InitRetry /\ [][Next]_vars

\* ------------------------------------------------------------------------
\* Properties of the resilient transport (checked under Spec)
\* ------------------------------------------------------------------------

\* invocations that went through ClientManager.DoRequest and passed the gate
ViaTransport(p) ==
    inv[p].pc # "off" /\ inv[p].route = "manager" /\ inv[p].gate = "passed"

Retryable(a) == a.err \/ a.status >= 500

\* C1: after maxFailures consecutive calls that ended in exhausted-retry
\* failure (no success recorded in between) the breaker is open, and after
\* fewer it is closed
C1_OpenAfterMaxFailures ==
    /\ consecFailed >= cb.maxFailures => cb.state = "open"
    /\ consecFailed < cb.maxFailures => cb.state = "closed"

C1_Witness ==
    /\ cb.maxFailures > 1
    /\ consecFailed = cb.maxFailures
    /\ cb.state = "open"

\* C2: a DoWithCircuitBreaker call that starts while the breaker is open and
\* at most resetTimeout has passed since lastFailTime returns the circuit-open
\* error, makes no network attempt and leaves the breaker as it was
C2_OpenRejects ==
    [][\A p \in Invocations :
          ( /\ inv[p].pc = "idle"
            /\ inv'[p].pc # "idle"
            /\ inv'[p].route = "manager"
            /\ cb.state = "open"
            /\ now - cb.lastFailTime <= cb.resetTimeout )
          => ( /\ inv'[p].pc = "done"
               /\ inv'[p].result = CircuitOpen
               /\ inv'[p].answers = <<>>
               /\ inv'[p].sleeps = <<>>
               /\ cb' = cb )]_vars

C2_Witness ==
    \E p \in Invocations :
        /\ inv[p].pc = "done"
        /\ inv[p].gate = "rejected"
        /\ inv[p].result = CircuitOpen
        /\ cb.state = "open"
        /\ now - cb.lastFailTime = cb.resetTimeout

\* C3: once resetTimeout has elapsed on an open breaker exactly one trial call
\* is let through: at most one invocation that passed the gate of the open
\* breaker is in flight before an outcome is recorded
C3_ExactlyOneTrial ==
    Cardinality({p \in Invocations :
                    inv[p].pc \in {"attempt", "sleep"} /\ inv[p].trial}) <= 1

\* C4: a call answered 503 on its first N-1 attempts and 200 on the Nth
\* (N <= MaxRetries+1) ends there with that response and no error, after N
\* attempts and N-1 sleeps of RetryDelay*1 .. RetryDelay*(N-1), and records one
\* success; a call answered 503 so far has not returned before MaxRetries+1
\* attempts
C4_RetryThenSuccess ==
    \A p \in Invocations :
        ViaTransport(p) =>
            /\ \A n \in 1..Len(inv[p].answers) :
                  ( /\ \A j \in 1..(n - 1) : inv[p].answers[j] = Response(503)
                    /\ inv[p].answers[n] = Response(200) )
                  => /\ n <= config.MaxRetries + 1
                     /\ Len(inv[p].answers) = n
                     /\ inv[p].pc = "done"
                     /\ inv[p].result = Responded(200, n, FALSE)
                     /\ inv[p].sleeps = [k \in 1..(n - 1) |->
                                            config.RetryDelay * k]
                     /\ inv[p].recorded = <<"success">>
            /\ ( /\ inv[p].pc = "done"
                 /\ \A j \in 1..Len(inv[p].answers) :
                       inv[p].answers[j] = Response(503) )
               => Len(inv[p].answers) = config.MaxRetries + 1

C4_Witness ==
    \E p \in Invocations :
        /\ ViaTransport(p)
        /\ inv[p].pc = "done"
        /\ inv[p].answers = <<Response(503), Response(503), Response(200)>>
        /\ inv[p].sleeps = <<RetryDelay, RetryDelay * 2>>

\* C5: a call makes at most MaxRetries+1 attempts; when every attempt ended in
\* a transport error or a status >= 500 it made exactly MaxRetries+1 attempts
\* and MaxRetries sleeps, recorded one failure, and returns the last transport
\* error with the attempt count or else the last response
C5_BoundedRetries ==
    \A p \in Invocations :
        ViaTransport(p) =>
            LET n == Len(inv[p].answers)
            IN  /\ n <= config.MaxRetries + 1
                /\ Len(inv[p].sleeps) <= config.MaxRetries
                /\ ( /\ inv[p].pc = "done"
                     /\ \A j \in 1..n : Retryable(inv[p].answers[j]) )
                   => /\ n = config.MaxRetries + 1
                      /\ Len(inv[p].sleeps) = config.MaxRetries
                      /\ inv[p].recorded = <<"failure">>
                      /\ inv[p].result =
                            IF inv[p].answers[n].err
                            THEN HTTPError(config.MaxRetries + 1)
                            ELSE Responded(inv[p].answers[n].status,
                                           config.MaxRetries + 1, TRUE)

C5_Witness ==
    \E p \in Invocations :
        /\ ViaTransport(p)
        /\ inv[p].pc = "done"
        /\ inv[p].answers = <<TransportError, Response(503), TransportError>>
        /\ inv[p].result.kind = "http_error"

\* C6: once the invocation's context is cancelled the call makes no further
\* network attempt and starts no further backoff sleep
C6_CancelStopsRetries ==
    [][\A p \in Invocations :
          (inv[p].pc \in {"attempt", "sleep"} /\ inv[p].cancelled) =>
              /\ ~(inv[p].pc = "attempt" /\ inv'[p].pc = "sleep")
              /\ ~(inv[p].pc = "sleep" /\ inv'[p].pc = "attempt")]_vars

\* ------------------------------------------------------------------------
\* Initial states for request building
\* ------------------------------------------------------------------------

ID == <<"i", "d">>
OID == <<"o", "i", "d">>
Identifiers == {ID, OID}

\* "/u/{id}/o/{oid}"
UserOrderPath == <<"/", "u", "/">> \o Placeholder(ID) \o <<"/", "o", "/">>
                 \o Placeholder(OID)

\* the strings "42" and "7"
S42 == <<"4", "2">>
S7 == <<"7">>

\* Param declarations: a Dynamic one carries no Value, a Constant one the
\* empty string or "7"
ParamPool ==
    {Param(id, DYNAMIC, req, Empty) : id \in Identifiers, req \in BOOLEAN}
    \cup {Param(id, CONSTANT_, req, v) :
             id \in Identifiers, req \in BOOLEAN, v \in {Empty, S7}}

\* parameter groups of at most n declarations with distinct identifiers
ParamLists(n) ==
    {l \in UNION {[1..k -> ParamPool] : k \in 0..n} :
        \A i, j \in 1..Len(l) : i # j => l[i].Identifier # l[j].Identifier}

\* the endpoints over UserOrderPath that declare at most MaxParams parameters
BuildEndpoints ==
    LET groups == {g \in ParamLists(MaxParams) \X ParamLists(MaxParams)
                            \X ParamLists(MaxParams) :
                      Len(g[1]) + Len(g[2]) + Len(g[3]) <= MaxParams}
    IN  {Endpoint(cap, Name_r, UserOrderPath, g[1], g[2], g[3]) :
            cap \in {TOOL, RESOURCE, PROMPT}, g \in groups}

\* argument bags over the identifiers: a tool's arguments are strings or
\* numbers, a prompt's are strings (one of them the text "{oid}")
Bags(values) ==
    UNION {[ids -> values] : ids \in SUBSET Identifiers}

\* resource URIs proxy://name/seg1/.../segk with at most n segments
URIs(name, segs, n) ==
    {ProxyURI(name) \o Join([i \in 1..Len(l) |-> <<"/">> \o l[i]], <<>>) :
        l \in UNION {[1..j -> segs] : j \in 0..n}}

\* what callers may send to an endpoint of capability cap
Requests(cap) ==
    IF cap = RESOURCE
    THEN {[arguments |-> EmptyMap, uri |-> u] :
             u \in URIs(Name_r, {S42, S7}, 2)}
    ELSE {[arguments |-> a, uri |-> Empty] :
             a \in Bags(IF cap = TOOL THEN {Str(S42), Num(7)}
                        ELSE {Str(S42), Str(Placeholder(OID))})}

\* Builder-centred initial states: every endpoint of BuildEndpoints and
\* every request to it, one invocation, a client that retries once
InitBuild ==
    /\ endpoint \in BuildEndpoints
    /\ backend = Backend(BaseURL_h, <<>>)
    /\ served = PlainServed
    /\ request \in Requests(endpoint.Capability)
    /\ config = [MaxRetries |-> 1, RetryDelay |-> RetryDelay]
    /\ cb = NewCircuitBreaker(1, 1)
    /\ now = MaxTime - 1
    /\ inv = [p \in Invocations |-> IF p = 1 THEN Idle ELSE Off]
    /\ callsLeft = 1
    /\ consecFailed = 0
    /\ proxy = NewProxy({})
    /\ clientNames = [p \in Invocations |-> endpoint.Name]
    /\ construction = Constructed(<<<<endpoint.Capability>>>>)

SpecBuild == InitBuild /\ [][Next]_vars

\* ------------------------------------------------------------------------
\* Properties of request building (checked under SpecBuild)
\* ------------------------------------------------------------------------

\* invocations whose handler has been entered and has not yet been reset
Started(p) == inv[p].pc \in {"attempt", "sleep", "done"}

\* the argument bag of the behaviour's request
Args == Arguments(endpoint, request)

\* the required Dynamic parameters of a group that the bag does not hold
MissingDynamic(params) ==
    {params[i].Identifier : i \in {j \in 1..Len(params) :
        /\ params[j].ValueType = DYNAMIC
        /\ params[j].Required
        /\ params[j].Identifier \notin DOMAIN Args}}

\* the Constant parameters of a group
Constants(params) ==
    {params[i] : i \in {j \in 1..Len(params) :
                           params[j].ValueType = CONSTANT_}}

\* the group a build error of the given stage comes from
GroupOf(stage) ==
    IF stage = "url" THEN endpoint.PathParameters ELSE endpoint.BodyParams

C8_MissingRequiredQueryAborts ==
    \A p \in Invocations :
        (Started(p) /\ MissingDynamic(endpoint.QueryParameters) # {})
        => /\ inv[p].pc = "done"
           /\ inv[p].result.kind = "build_error"
           /\ inv[p].answers = <<>>

\* C9: a Constant parameter of any group and capability never fails
\* resolution and is placed in the request with its declared Value, whatever
\* the bag holds: no build error names it, the body maps it to Value, the
\* query string holds identifier=Value, and its path placeholder is replaced
C9_ConstantsAlwaysResolve ==
    \A p \in Invocations :
        Started(p) =>
            /\ inv[p].result.kind = "build_error" =>
                  \A c \in Constants(GroupOf(inv[p].result.stage)) :
                      c.Identifier # inv[p].result.param
            /\ inv[p].result.kind # "build_error" =>
                  /\ \A c \in Constants(endpoint.BodyParams) :
                        /\ c.Identifier \in DOMAIN inv[p].body
                        /\ inv[p].body[c.Identifier] = Str(c.Value)
                  /\ \A c \in Constants(endpoint.QueryParameters) :
                        \E k \in 1..Len(QueryPairs(endpoint, Args)) :
                            QueryPairs(endpoint, Args)[k]
                                = c.Identifier \o <<"=">> \o c.Value
                  /\ \A c \in Constants(endpoint.PathParameters) :
                        ~Contains(inv[p].url, Placeholder(c.Identifier))

\* the resolution rule of a parameter as documented on Param: a Constant
\* parameter has its declared Value, a Dynamic one the bag's value
SpecResolved(param) ==
    param.ValueType = CONSTANT_ \/ param.Identifier \in DOMAIN Args

SpecValue(param) ==
    IF param.ValueType = CONSTANT_ THEN param.Value
    ELSE Sprintv(Args[param.Identifier])

\* the template with every placeholder {id}, id \in DOMAIN values, replaced
\* by values[id] in one left-to-right pass over the template
RECURSIVE SimSubstFrom(_, _, _)
SimSubstFrom(s, values, i) ==
    IF i > Len(s) THEN <<>>
    ELSE LET hits == {id \in DOMAIN values : OccursAt(s, Placeholder(id), i)}
         IN  IF hits # {}
             THEN LET id == CHOOSE h \in hits : TRUE
                  IN  values[id]
                        \o SimSubstFrom(s, values, i + Len(Placeholder(id)))
             ELSE <<s[i]>> \o SimSubstFrom(s, values, i + 1)

SimSubst(s, values) == SimSubstFrom(s, values, 1)

\* the path parameters' values under the documented resolution
PathValues ==
    LET ps == endpoint.PathParameters
        idx(id) == CHOOSE i \in 1..Len(ps) : ps[i].Identifier = id
    IN  [id \in {ps[i].Identifier : i \in {j \in 1..Len(ps) :
                                              SpecResolved(ps[j])}}
            |-> SpecValue(ps[idx(id)])]

\* every placeholder of the path template has a resolved path parameter
PlaceholdersResolved ==
    \A id \in Identifiers :
        Contains(endpoint.Path, Placeholder(id)) => id \in DOMAIN PathValues

\* the part of a request URL before the query string
URLPath(url) == Split(url, "?")[1]

\* C10: when every placeholder of the path template has a path parameter
\* with a resolved value, URL building succeeds, the URL is BaseURL followed
\* by the template with each {identifier} replaced by its value, and no
\* declared placeholder is left in it
C10_URLIsTemplateWithValues ==
    \A p \in Invocations :
        (Started(p) /\ PlaceholdersResolved)
        => /\ ~(inv[p].result.kind = "build_error"
                  /\ inv[p].result.stage = "url")
           /\ inv[p].built =>
                 /\ URLPath(inv[p].url)
                       = backend.BaseURL \o SimSubst(endpoint.Path, PathValues)
                 /\ \A id \in DOMAIN PathValues :
                       ~Contains(URLPath(inv[p].url), Placeholder(id))

\* ------------------------------------------------------------------------
\* Initial states for response interpretation
\* ------------------------------------------------------------------------

MaxMessages == 2

\* JSON texts: sp is what the writer puts after ":" and ","
Quoted(s) == <<Quote>> \o s \o <<Quote>>
Member(k, v, sp) == Quoted(k) \o <<":">> \o sp \o v
Object(members, sp) == <<"{">> \o Join(members, <<",">> \o sp) \o <<"}">>
Array(items, sp) == <<"[">> \o Join(items, <<",">> \o sp) \o <<"]">>

Hi == <<"h", "i">>
Yo == <<"y", "o">>

Assistant == <<"A", "s", "s", "i", "s", "t", "a", "n", "t">>

\* the example {"messages":[{"role":"Assistant","content":"hi"}]}
AssistantHi ==
    Object(<<Member(KeyMessages,
                    Array(<<Object(<<Member(KeyRole, Quoted(Assistant), <<>>),
                                     Member(KeyContent, Quoted(Hi), <<>>)>>,
                                   <<>>)>>, <<>>), <<>>)>>, <<>>)

\* what a backend may put in a message's role: a role in some letter case, an
\* unknown role, a number, or nothing
RoleMembers(sp) ==
    {<<Member(KeyRole, Quoted(r), sp)>> :
        r \in {Assistant, <<"s", "y", "s", "t", "e", "m">>}}
      \cup {<<Member(KeyRole, <<"1">>, sp)>>, <<>>}

\* what it may put in a message's content: a string, a text object, an
\* object without text, or nothing
ContentMembers(sp) ==
    {<<Member(KeyContent, Quoted(Hi), sp)>>,
     <<Member(KeyContent,
              Object(<<Member(KeyType, Quoted(KeyText), sp),
                       Member(KeyText, Quoted(Yo), sp)>>, sp), sp)>>,
     <<Member(KeyContent,
              Object(<<Member(KeyType, Quoted(KeyText), sp)>>, sp), sp)>>,
     <<>>}

\* the items of a messages array: message objects, or a bare string
MessageTexts(sp) ==
    {Object(r \o c, sp) : r \in RoleMembers(sp), c \in ContentMembers(sp)}
      \cup {Quoted(Hi)}

\* {"messages": [...]} with at most MaxMessages items, written with a space
\* after each ":" and ","
PromptBodies ==
    UNION {{Object(<<Member(KeyMessages,
                            Array([i \in 1..n |-> l[i]], <<" ">>), <<" ">>)>>,
                   <<" ">>) :
               l \in [1..n -> MessageTexts(<<" ">>)]} :
           n \in 0..MaxMessages}

\* texts that are JSON
IdX == Object(<<Member(ID, Quoted(<<"x">>), <<>>)>>, <<>>)
JSONBodies ==
    {IdX, AssistantHi,
     Object(<<>>, <<>>),
     Object(<<Member(OID, <<"1">>, <<" ">>), Member(ID, <<"2">>, <<" ">>)>>,
            <<" ">>),
     Object(<<Member(KeyMessages, Quoted(Hi), <<>>)>>, <<>>),
     Object(<<Member(KeyDescription, Quoted(Yo), <<>>),
              Member(KeyMessages,
                     Array(<<Object(<<Member(KeyContent, Quoted(Hi), <<>>)>>,
                                    <<>>)>>, <<>>), <<>>)>>, <<>>),
     Array(<<<<"1">>, <<"2">>>>, <<" ">>),
     <<"n", "u", "l", "l">>,
     <<"7">>,
     Quoted(Hi)}

\* texts that are not JSON
TextBodies == {Empty, Hi, <<"{">>, <<"[", "1", ",", "]">>, IdX \o IdX}

\* the bodies a backend may answer an endpoint of capability cap with
Bodies(cap) ==
    JSONBodies \cup TextBodies \cup (IF cap = PROMPT THEN PromptBodies ELSE {})

RespStatuses == {200, 201, 301, 404, 500, 503}

\* Response-centred initial states: a plain endpoint of each capability, a
\* backend answering with one of the bodies, one invocation, one retry
InitResp ==
    /\ endpoint \in PlainEndpoints
    /\ backend = Backend(BaseURL_h, <<>>)
    /\ request = [arguments |-> EmptyMap, uri |-> ProxyURI(Name_r)]
    /\ served \in {[statuses |-> RespStatuses, body |-> b] :
                      b \in Bodies(endpoint.Capability)}
    /\ config = [MaxRetries |-> 1, RetryDelay |-> RetryDelay]
    /\ cb = NewCircuitBreaker(1, 1)
    /\ now = MaxTime - 1
    /\ inv = [p \in Invocations |-> IF p = 1 THEN Idle ELSE Off]
    /\ callsLeft = 1
    /\ consecFailed = 0
    /\ proxy = NewProxy({})
    /\ clientNames = [p \in Invocations |-> endpoint.Name]
    /\ construction = Constructed(<<<<endpoint.Capability>>>>)

SpecResp == InitResp /\ [][Next]_vars

\* ------------------------------------------------------------------------
\* Properties of response interpretation (checked under SpecResp)
\* ------------------------------------------------------------------------

\* the handler of invocation p was given a response and has returned
Answered(p) == inv[p].pc = "done" /\ inv[p].result.kind = "response"

C12_HardErrorOutside2xx ==
    \A p \in Invocations :
        ( /\ Answered(p)
          /\ endpoint.Capability \in {RESOURCE, PROMPT}
          /\ inv[p].result.status \notin 200..299 )
        => /\ inv[p].out.err
           /\ inv[p].out.returns = "nothing"
           /\ inv[p].out.text = Empty
           /\ inv[p].out.messages = <<>>

C12_Witness ==
    \E p \in Invocations :
        /\ Answered(p)
        /\ endpoint.Capability = RESOURCE
        /\ inv[p].result.status = 404
        /\ served.body = Hi
        /\ inv[p].out.err
        /\ inv[p].out.errText
             = <<"resource request failed with status ", "4", "0", "4", ": ">>
                 \o Hi

\* C13: when a call through the resilient transport ends with every attempt
\* answered 5xx, the handler can still read the last response, and its error
\* carries the endpoint name, that response's status code and its body
C13_ExhaustedErrorIsDiagnosable ==
    \A p \in Invocations :
        ( /\ Answered(p)
          /\ inv[p].route = "manager"
          /\ \A k \in 1..Len(inv[p].answers) :
                ~inv[p].answers[k].err /\ inv[p].answers[k].status >= 500 )
        => /\ inv[p].out.err
           /\ inv[p].out # ReadError
           /\ Contains(inv[p].out.errText, endpoint.Name)
           /\ Contains(inv[p].out.errText, Itoa(inv[p].result.status))
           /\ Contains(inv[p].out.errText, served.body)

\* C14: for a resource 2xx response the one content has MIME type
\* application/json exactly when the body is JSON and text/plain otherwise,
\* its text is the raw body and its URI the requested URI; interpreting the
\* same response again gives the same content
C14_ResourceContent ==
    \A p \in Invocations :
        ( /\ Answered(p)
          /\ endpoint.Capability = RESOURCE
          /\ inv[p].result.status \in 200..299 )
        => LET o == inv[p].out
           IN  /\ ~o.err
               /\ o.returns = "contents"
               /\ served.body \in JSONBodies => o.mime = ApplicationJSON
               /\ served.body \in TextBodies => o.mime = TextPlain
               /\ o.text = served.body
               /\ o.uri = request.uri
               /\ HandleResponse(endpoint, request, inv[p].result.status,
                                 served.body, FALSE, FALSE) = o

C14_Witness ==
    \E p \in Invocations :
        /\ Answered(p)
        /\ endpoint.Capability = RESOURCE
        /\ inv[p].result.status = 200
        /\ served.body = Hi
        /\ inv[p].out.mime = TextPlain
        /\ inv[p].out.text = Hi
        /\ inv[p].out.uri = ProxyURI(Name_r)

\* C15: every message of a prompt result has role user or assistant, and a
\* role string that is "assistant" ignoring case gives assistant
C15_RolesAreUserOrAssistant ==
    \A p \in Invocations :
        (Answered(p) /\ endpoint.Capability = PROMPT
           /\ inv[p].out.returns = "prompt")
        => /\ \A k \in 1..Len(inv[p].out.messages) :
                 inv[p].out.messages[k].role \in {RoleUser, RoleAssistant}
           /\ served.body = AssistantHi =>
                 inv[p].out.messages = <<[role |-> RoleAssistant, text |-> Hi]>>

\* a message item with resolvable content: an object whose content is a
\* string or an object {type: "text", text: string}
Resolvable(item) ==
    /\ item.t = "object"
    /\ KeyContent \in DOMAIN item.m
    /\ \/ item.m[KeyContent].t = "string"
       \/ /\ item.m[KeyContent].t = "object"
          /\ HasString(item.m[KeyContent].m, KeyType)
          /\ item.m[KeyContent].m[KeyType].s = KeyText
          /\ HasString(item.m[KeyContent].m, KeyText)

\* how many items of the decoded body's messages array survive
Survivors(v) ==
    IF v.t = "object" /\ KeyMessages \in DOMAIN v.m
       /\ v.m[KeyMessages].t = "array"
    THEN Cardinality({k \in 1..Len(v.m[KeyMessages].items) :
                         Resolvable(v.m[KeyMessages].items[k])})
    ELSE 0

\* the one message the handler makes up from a text
OnlyUser(text) == <<[role |-> RoleUser, text |-> text]>>

\* a prompt invocation that was answered with a 2xx status
PromptSuccess(p) ==
    /\ Answered(p)
    /\ endpoint.Capability = PROMPT
    /\ inv[p].result.status \in 200..299

MaxHeaders == 2

\* header names: "id" (also an argument of the bag), "Id", and two spellings
\* of Content-Type
NameId == <<"I", "d">>
NameContentType ==
    <<"c", "o", "n", "t", "e", "n", "t", "-", "t", "y", "p", "e">>
HeaderNames == {ID, NameId, NameContentType}

\* the backend's default headers carry the value "d", the endpoint's "7"
ValueD == <<"d">>
DefaultHeaderLists ==
    {<<>>} \cup {<<Header(CONSTANT_, n, ValueD)>> : n \in HeaderNames}
HeaderPool == {Header(t, n, S7) : t \in {CONSTANT_, DYNAMIC}, n \in HeaderNames}
HeaderLists(n) == UNION {[1..k -> HeaderPool] : k \in 0..n}

OptionalId == Param(ID, DYNAMIC, FALSE, Empty)

\* endpoints over /u/{id}/o/{oid} with an optional path parameter id, with or
\* without a body parameter, and at most MaxHeaders headers
HeaderEndpoints ==
    {[Endpoint(cap, Name_r, UserOrderPath, <<OptionalId>>, <<>>, bp)
         EXCEPT !.Headers = hs] :
        cap \in {TOOL, RESOURCE, PROMPT},
        bp \in {<<>>, <<OptionalId>>},
        hs \in HeaderLists(MaxHeaders)}

\* a request without arguments and one with id = "42"
HeaderRequests(cap) ==
    IF cap = RESOURCE
    THEN {[arguments |-> EmptyMap, uri |-> u] :
             u \in URIs(Name_r, {S42}, 1)}
    ELSE {[arguments |-> a, uri |-> Empty] :
             a \in {EmptyMap, ID :> Str(S42)}}

\* Header-centred initial states
InitHeaders ==
    /\ endpoint \in HeaderEndpoints
    /\ backend \in {Backend(BaseURL_h, dh) : dh \in DefaultHeaderLists}
    /\ request \in HeaderRequests(endpoint.Capability)
    /\ served = PlainServed
    /\ config = [MaxRetries |-> 1, RetryDelay |-> RetryDelay]
    /\ cb = NewCircuitBreaker(1, 1)
    /\ now = MaxTime - 1
    /\ inv = [p \in Invocations |-> IF p = 1 THEN Idle ELSE Off]
    /\ callsLeft = 1
    /\ consecFailed = 0
    /\ proxy = NewProxy({})
    /\ clientNames = [p \in Invocations |-> endpoint.Name]
    /\ construction = Constructed(<<<<endpoint.Capability>>>>)

SpecHeaders == InitHeaders /\ [][Next]_vars

\* ------------------------------------------------------------------------
\* Properties of header assembly (checked under SpecHeaders)
\* ------------------------------------------------------------------------

\* the header writes in the order of the claim: the default headers, then the
\* endpoint's headers; a Dynamic header writes only when the bag has its name
HeaderWrites ==
    LET bag == Args
    IN  [i \in 1..Len(backend.DefaultHeaders) |->
            [name |-> ToLower(backend.DefaultHeaders[i].Name),
             writes |-> TRUE,
             value |-> backend.DefaultHeaders[i].Value]]
        \o [i \in 1..Len(endpoint.Headers) |->
              LET h == endpoint.Headers[i]
              IN  [name |-> ToLower(h.Name),
                   writes |-> h.Type = CONSTANT_ \/ h.Name \in DOMAIN bag,
                   value |-> IF h.Type = CONSTANT_ THEN h.Value
                             ELSE IF h.Name \in DOMAIN bag
                             THEN Sprintv(bag[h.Name]) ELSE Empty]]

\* header names are compared without regard to letter case: the writes w
\* carry the names in lower case
SameHeader(a, b) == ToLower(a) = ToLower(b)

\* the writes of w to the header called name
WritesTo(w, name) ==
    {i \in 1..Len(w) : w[i].writes /\ w[i].name = ToLower(name)}

Max(S) == CHOOSE x \in S : \A y \in S : y <= x

\* C17: a request that was built carries, for every header name, the value of
\* the last write to it in the order default headers, endpoint headers,
\* forced content type; a Dynamic header whose name is not in the bag writes
\* nothing and fails nothing; with a body parameter declared Content-Type is
\* application/json, with none Content-Type is only what was configured
C17_HeadersLastWriteWins ==
    \A p \in Invocations :
        Started(p)
        => /\ inv[p].built
           /\ LET w == HeaderWrites
               IN  \A name \in HeaderNames \cup {ContentType} :
                     LET mine == {k \in DOMAIN inv[p].headers :
                                     SameHeader(k, name)}
                         forced == /\ Len(endpoint.BodyParams) > 0
                                   /\ SameHeader(name, ContentType)
                         last == WritesTo(w, name)
                     IN  IF forced
                         THEN /\ mine = {ContentType}
                              /\ inv[p].headers[ContentType] = ApplicationJSON
                         ELSE IF last = {} THEN mine = {}
                         ELSE /\ Cardinality(mine) = 1
                              /\ \A k \in mine :
                                    inv[p].headers[k] = w[Max(last)].value
           /\ \A k \in DOMAIN inv[p].headers :
                 \E name \in HeaderNames \cup {ContentType} :
                     SameHeader(k, name)

\* a default Id: d is overridden by the endpoint's Dynamic id from the bag,
\* and the configured content-type by the forced one
C17_Witness ==
    \E p \in Invocations :
        /\ Started(p)
        /\ endpoint.Capability = TOOL
        /\ backend.DefaultHeaders = <<Header(CONSTANT_, NameId, ValueD)>>
        /\ endpoint.Headers = <<Header(DYNAMIC, ID, S7),
                                Header(CONSTANT_, NameContentType, S7)>>
        /\ Len(endpoint.BodyParams) > 0
        /\ Args = (ID :> Str(S42))
        /\ inv[p].headers = (NameId :> S42) @@ (ContentType :> ApplicationJSON)

\* ------------------------------------------------------------------------
\* Properties of the request body and the query string (checked under
\* SpecBuild)
\* ------------------------------------------------------------------------

\* the parameters of a group that resolve to a present value under the
\* documented resolution, in declaration order
Present(params) ==
    LET keep(i) == SpecResolved(params[i])
        F[i \in 0..Len(params)] ==
            IF i = 0 THEN <<>>
            ELSE IF keep(i) THEN Append(F[i - 1], params[i]) ELSE F[i - 1]
    IN  F[Len(params)]

\* the value of a present parameter as JSON
SpecJSON(param) ==
    IF param.ValueType = CONSTANT_ THEN JStr(param.Value)
    ELSE ToJSON(Args[param.Identifier])

\* the mapping identifier -> value of the present body parameters
PresentBody ==
    LET ps == Present(endpoint.BodyParams)
    IN  [id \in {ps[i].Identifier : i \in 1..Len(ps)} |->
            SpecJSON(ps[CHOOSE i \in 1..Len(ps) : ps[i].Identifier = id])]

\* C18: without body parameters the request body is empty; with body
\* parameters a request that was built carries the JSON serialization of the
\* mapping of the present body parameters, "{}" when none is present; and
\* the build fails when a required body parameter is absent
C18_BodyIsMappingOfPresent ==
    \A p \in Invocations :
        Started(p)
        => /\ (inv[p].built /\ Len(endpoint.BodyParams) = 0) =>
                 inv[p].bytes = Empty
           /\ (inv[p].built /\ Len(endpoint.BodyParams) > 0) =>
                 inv[p].bytes = Marshal(JObj(PresentBody))
           /\ (\E i \in 1..Len(endpoint.BodyParams) :
                  /\ endpoint.BodyParams[i].Required
                  /\ ~SpecResolved(endpoint.BodyParams[i])) =>
                 inv[p].result.kind = "build_error"

\* the pairs identifier=value of the present query parameters
PresentPairs ==
    LET ps == Present(endpoint.QueryParameters)
    IN  [i \in 1..Len(ps) |->
            ps[i].Identifier \o <<"=">> \o SpecValue(ps[i])]

\* C19: the URL of a request that was built ends with "?" and the pairs
\* identifier=value of the present query parameters, in declaration order and
\* joined with "&"; it holds no "?" when no query parameter is present
C19_QueryStringOfPresent ==
    \A p \in Invocations :
        (Started(p) /\ inv[p].built)
        => LET parts == Split(inv[p].url, "?")
           IN  IF Len(PresentPairs) = 0 THEN Len(parts) = 1
               ELSE /\ Len(parts) = 2
                    /\ parts[2] = Join(PresentPairs, <<"&">>)

\* ------------------------------------------------------------------------
\* Startup (checked under SpecStart)
\* ------------------------------------------------------------------------

\* Startup-centred initial states: a resource endpoint without parameters,
\* a client that retries, and a Proxy whose Start may fail at each of its
\* calls and whose server may fail to listen
InitStart ==
    /\ endpoint = Endpoint(RESOURCE, Name_r, <<"/", "s">>, <<>>, <<>>, <<>>)
    /\ backend = Backend(BaseURL_h, <<>>)
    /\ served = PlainServed
    /\ request = [arguments |-> EmptyMap, uri |-> ProxyURI(Name_r)]
    /\ config = [MaxRetries |-> ConcurrentRetriesBound, RetryDelay |-> RetryDelay]
    /\ cb = NewCircuitBreaker(MaxFailuresBound, MaxResetTimeout)
    /\ now = 0
    /\ inv = [p \in Invocations |-> Idle]
    /\ callsLeft = MaxCalls
    /\ consecFailed = 0
    /\ proxy = NewProxy(StartFaults \cup {FaultListenAndServe})
    /\ clientNames = [p \in Invocations |-> endpoint.Name]
    /\ construction = Constructed(<<<<endpoint.Capability>>>>)

SpecStart == InitStart /\ [][Next]_vars

\* C20: once Start has returned nil the self-held client has completed
\* Initialize against the proxy's own server; once Start has returned the
\* error of NewSSE, of transport.Start or of Initialize, the server is not
\* serving and the client that Client() hands out is not an initialized one
C20_StartHandshakesOrAborts ==
    /\ proxy.result = "nil" =>
          /\ Client(proxy) = "initialized"
          /\ proxy.transport = "started"
    /\ proxy.result \in StartFaults =>
          /\ proxy.server # "listening"
          /\ Client(proxy) # "initialized"

\* C21: in every interleaving of Start the self-held client connects
\* (transport.Start) only to a server that has registered the capabilities
\* and is listening
C21_ConnectsAfterListening ==
    proxy.dialed # "" => proxy.dialed = "listening"

\* C22: while a Close that follows a successful Start waits for the server
\* goroutine, the client session is closed and Close can return without the
\* caller cancelling ctx: the goroutine has been stopped by Close itself
C22_CloseReturnsUnaided ==
    (proxy.result = "nil" /\ proxy.close = "waiting")
    => /\ Client(proxy) = "nil"
       /\ proxy.transport = "nil"
       /\ ENABLED ProxyCloseReturn

\* ------------------------------------------------------------------------
\* Tool modes (checked under SpecMode)
\* ------------------------------------------------------------------------

\* the endpoints without parameters, the tool in each of its modes
ModeEndpoints ==
    {e \in PlainEndpoints : e.Capability # TOOL}
    \cup {[e EXCEPT !.Mode = m] : e \in {x \in PlainEndpoints :
                                           x.Capability = TOOL},
                                  m \in {WEBHOOK, CLIENT}}

\* Mode-centred initial states: one goroutine runs the invocations, the
\* client retries once
InitMode ==
    /\ endpoint \in ModeEndpoints
    /\ backend = Backend(BaseURL_h, <<>>)
    /\ served = PlainServed
    /\ request = [arguments |-> EmptyMap, uri |-> ProxyURI(Name_r)]
    /\ config = [MaxRetries |-> ConcurrentRetriesBound, RetryDelay |-> RetryDelay]
    /\ cb = NewCircuitBreaker(MaxFailuresBound, MaxResetTimeout)
    /\ now = 0
    /\ inv = [p \in Invocations |-> IF p = 1 THEN Idle ELSE Off]
    /\ callsLeft = MaxCalls
    /\ consecFailed = 0
    /\ proxy = NewProxy({})
    /\ clientNames = [p \in Invocations |-> endpoint.Name]
    /\ construction = Constructed(<<<<endpoint.Capability>>>>)

SpecMode == InitMode /\ [][Next]_vars

\* C23: an invocation of a tool endpoint whose mode is client makes no HTTP
\* request from the bridge; only a tool in webhook mode does
C23_ClientModeMakesNoRequest ==
    \A p \in Invocations :
        (inv[p].pc # "off" /\ endpoint.Capability = TOOL
            /\ endpoint.Mode = CLIENT)
        => /\ inv[p].pc # "attempt"
           /\ inv[p].answers = <<>>

\* ------------------------------------------------------------------------
\* Properties of the breaker under concurrent invocations (checked under
\* Spec)
\* ------------------------------------------------------------------------

\* invocation q is waiting on the network or sleeping inside the transport
InFlight(q) ==
    inv[q].pc \in {"attempt", "sleep"} /\ inv[q].route = "manager"

\* C24: while an invocation is waiting on the network or sleeping the
\* breaker's mutex is not held, so another invocation's gate check
\* (CanExecute at the entry of the call) and outcome recording (when its
\* attempt returns) can proceed
C24_MutexNotHeldAcrossCall ==
    \A q \in Invocations :
        InFlight(q)
        => /\ cb.mu = "unlocked"
           /\ \A p \in Invocations \ {q} :
                 /\ ( /\ inv[p].pc = "idle"
                      /\ callsLeft > 0
                      /\ proxy.server = "listening" ) => ENABLED Start(p)
                 /\ inv[p].pc = "attempt" => ENABLED AttemptReturn(p)

\* one invocation sleeps while the other, which started later, has had its
\* outcome recorded
C24_Witness ==
    \E p, q \in Invocations :
        /\ p # q
        /\ inv[q].pc = "sleep"
        /\ inv[q].route = "manager"
        /\ inv[p].pc = "done"
        /\ inv[p].gate = "passed"
        /\ inv[p].recorded # <<>>
        /\ callsLeft = MaxCalls - 2

\* C25: whatever the capability kind, an invocation whose attempts all ended
\* in a transport error or a status >= 500 has made MaxRetries+1 attempts when
\* it returns, and no invocation that starts while the breaker is open and at
\* most resetTimeout has passed since lastFailTime makes a network attempt
C25_AllKindsUseTransport ==
    [][\A p \in Invocations :
          /\ ( /\ inv[p].pc = "attempt"
               /\ inv'[p].pc = "done"
               /\ \A j \in 1..Len(inv'[p].answers) :
                     Retryable(inv'[p].answers[j]) )
             => Len(inv'[p].answers) = config.MaxRetries + 1
          /\ ( /\ inv[p].pc = "idle"
               /\ inv'[p].pc # "idle"
               /\ cb.state = "open"
               /\ now - cb.lastFailTime <= cb.resetTimeout )
             => inv'[p].pc # "attempt"]_vars

\* ------------------------------------------------------------------------
\* Trial calls (checked under SpecTrial)
\* ------------------------------------------------------------------------

\* Trial-centred initial states: a resource endpoint, every client configuration,
\* the breaker that needs the most failures to open, and one invocation more
\* than elsewhere, so that
\* a call that started before the breaker opened is still running when the
\* trial call is made
InitTrial ==
    /\ endpoint = Endpoint(RESOURCE, Name_r, <<"/", "s">>, <<>>, <<>>, <<>>)
    /\ backend = Backend(BaseURL_h, <<>>)
    /\ served = PlainServed
    /\ request = [arguments |-> EmptyMap, uri |-> ProxyURI(Name_r)]
    /\ config \in ClientConfigs(ConcurrentRetriesBound)
    /\ cb = NewCircuitBreaker(MaxFailuresBound, MaxResetTimeout)
    /\ now = 0
    /\ inv = [p \in Invocations |-> Idle]
    /\ callsLeft = MaxCalls + 1
    /\ consecFailed = 0
    /\ proxy = NewProxy({})
    /\ clientNames = [p \in Invocations |-> endpoint.Name]
    /\ construction = Constructed(<<<<endpoint.Capability>>>>)

SpecTrial == InitTrial /\ [][Next]_vars

\* the step in which the trial call of invocation p ends with outcome o
TrialEnds(p, o) ==
    /\ inv[p].trial
    /\ inv[p].pc = "attempt"
    /\ inv'[p].pc = "done"
    /\ inv'[p].recorded = <<o>>

\* C26: a trial call (one that passed the gate of the open breaker after
\* resetTimeout) that ends in exhausted-retry failure leaves the breaker open
\* with lastFailTime the time of that failure, so that calls are rejected for
\* a full resetTimeout; one that ends in success leaves it closed with
\* failureCount 0, and calls pass the gate
C26_TrialOutcome ==
    [][\A p \in Invocations :
          /\ TrialEnds(p, "failure")
             => /\ cb'.state = "open"
                /\ cb'.lastFailTime = now
                /\ \A t \in now..(now + cb.resetTimeout) : ~CanExecute(cb', t)
          /\ TrialEnds(p, "success")
             => /\ cb'.state = "closed"
                /\ cb'.failureCount = 0
                /\ CanExecute(cb', now)]_vars

\* ------------------------------------------------------------------------
\* More properties of the resilient transport (checked under Spec)
\* ------------------------------------------------------------------------

\* C27: an attempt of the transport that returns without transport error and
\* with a status below 500 ends the call in that step: no sleep is started,
\* the response is handed to the handler with its body open, and the breaker
\* has recorded a success (failureCount 0, state closed); a call that has
\* ended makes no further attempt
C27_AcceptedEndsCall ==
    [][\A p \in Invocations :
          /\ ( /\ ViaTransport(p)
               /\ inv[p].pc = "attempt"
               /\ Len(inv'[p].answers) = Len(inv[p].answers) + 1
               /\ ~inv'[p].answers[Len(inv'[p].answers)].err
               /\ inv'[p].answers[Len(inv'[p].answers)].status < 500 )
             => LET n == Len(inv'[p].answers)
                IN  /\ inv'[p].pc = "done"
                    /\ inv'[p].sleeps = inv[p].sleeps
                    /\ inv'[p].result =
                          Responded(inv'[p].answers[n].status, n, FALSE)
                    /\ inv'[p].recorded = <<"success">>
                    /\ cb'.failureCount = 0
                    /\ cb'.state = "closed"
          /\ inv[p].pc = "done"
             => \/ inv'[p].answers = inv[p].answers
                \/ inv'[p].pc = "idle"]_vars

\* a call ended by a 404 on its second attempt, its success recorded after
\* the other invocation's failure
C27_Witness ==
    \E p, q \in Invocations :
        /\ p # q
        /\ ViaTransport(p)
        /\ inv[p].pc = "done"
        /\ inv[p].answers = <<Response(503), Response(404)>>
        /\ inv[p].result = Responded(404, 2, FALSE)
        /\ inv[q].pc = "done"
        /\ inv[q].recorded = <<"failure">>
        /\ consecFailed = 0
        /\ cb.state = "closed"
        /\ cb.failureCount = 0

\* ------------------------------------------------------------------------
\* Order of the build steps: endpoints that declare required path and body
\* parameters at once
\* ------------------------------------------------------------------------

\* the required Param declarations
RequiredPool == {q \in ParamPool : q.Required}

\* endpoints over UserOrderPath with one or more required path parameters
\* and one required body parameter
OrderEndpoints ==
    {Endpoint(cap, Name_r, UserOrderPath, path, <<>>, <<q>>) :
        cap \in {TOOL, RESOURCE, PROMPT},
        path \in {l \in ParamLists(MaxParams) :
                     /\ Len(l) > 0
                     /\ \A i \in 1..Len(l) : l[i].Required},
        q \in RequiredPool}

\* every endpoint of OrderEndpoints and every request to it, one invocation
InitOrder ==
    /\ endpoint \in OrderEndpoints
    /\ backend = Backend(BaseURL_h, <<>>)
    /\ served = PlainServed
    /\ request \in Requests(endpoint.Capability)
    /\ config = [MaxRetries |-> 1, RetryDelay |-> RetryDelay]
    /\ cb = NewCircuitBreaker(1, 1)
    /\ now = MaxTime - 1
    /\ inv = [p \in Invocations |-> IF p = 1 THEN Idle ELSE Off]
    /\ callsLeft = 1
    /\ consecFailed = 0
    /\ proxy = NewProxy({})
    /\ clientNames = [p \in Invocations |-> endpoint.Name]
    /\ construction = Constructed(<<<<endpoint.Capability>>>>)

SpecOrder == InitOrder /\ [][Next]_vars

\* the first required Dynamic parameter of a group, in declaration order,
\* that the bag does not hold
FirstMissingDynamic(params) ==
    LET absent == {j \in 1..Len(params) :
                      /\ params[j].ValueType = DYNAMIC
                      /\ params[j].Required
                      /\ params[j].Identifier \notin DOMAIN Args}
    IN  params[CHOOSE j \in absent : \A k \in absent : j <= k].Identifier

\* C28: the steps of an invocation run in the order path substitution, query
\* string, body, headers, transport, response, and a failing step stops the
\* later ones; when a required path parameter and a required body parameter
\* are both absent from the bag, the invocation ends with the error of the
\* path step for the first absent path parameter in declaration order, with
\* no body, no headers and no attempt
C28_FirstPathErrorReported ==
    \A p \in Invocations :
        ( /\ Started(p)
          /\ MissingDynamic(endpoint.PathParameters) # {}
          /\ MissingDynamic(endpoint.BodyParams) # {} )
        => /\ inv[p].pc = "done"
           /\ inv[p].result.kind = "build_error"
           /\ inv[p].result.stage = "url"
           /\ inv[p].result.param = FirstMissingDynamic(endpoint.PathParameters)
           /\ inv[p].bytes = Empty
           /\ inv[p].headers = NoHeaders
           /\ inv[p].route = ""
           /\ inv[p].answers = <<>>

\* ------------------------------------------------------------------------
\* Building twice: two invocations of one handler with the same request
\* ------------------------------------------------------------------------

\* endpoints over UserOrderPath with a required path parameter id, an
\* optional query parameter oid, a body parameter oid and a Dynamic header id
PureEndpoints ==
    {[Endpoint(cap, Name_r, UserOrderPath,
               <<Param(ID, DYNAMIC, TRUE, Empty)>>,
               <<Param(OID, DYNAMIC, FALSE, Empty)>>,
               <<Param(OID, DYNAMIC, req, Empty)>>)
         EXCEPT !.Headers = <<Header(DYNAMIC, ID, Empty)>>] :
        cap \in {TOOL, RESOURCE, PROMPT}, req \in BOOLEAN}

\* every endpoint of PureEndpoints and every request to it; the handler is
\* invoked twice, by either goroutine
InitPure ==
    /\ endpoint \in PureEndpoints
    /\ backend = Backend(BaseURL_h, <<>>)
    /\ served = PlainServed
    /\ request \in Requests(endpoint.Capability)
    /\ config = [MaxRetries |-> 1, RetryDelay |-> RetryDelay]
    /\ cb = NewCircuitBreaker(MaxFailuresBound, 1)
    /\ now = MaxTime - 1
    /\ inv = [p \in Invocations |-> Idle]
    /\ callsLeft = 2
    /\ consecFailed = 0
    /\ proxy = NewProxy({})
    /\ clientNames = [p \in Invocations |-> endpoint.Name]
    /\ construction = Constructed(<<<<endpoint.Capability>>>>)

SpecPure == InitPure /\ [][Next]_vars

\* what the build steps of an invocation produced
Built(p) ==
    [built |-> inv[p].built, url |-> inv[p].url, body |-> inv[p].body,
     bytes |-> inv[p].bytes, headers |-> inv[p].headers,
     error |-> IF inv[p].result.kind = "build_error"
               THEN <<inv[p].result.stage, inv[p].result.param>>
               ELSE <<>>]

C30_BreakerInvariant ==
    /\ cb.maxFailures >= 1
    /\ cb.state \in {"closed", "open"}
    /\ cb.failureCount >= 0
    /\ cb.state = "open" <=> cb.failureCount >= cb.maxFailures

\* a breaker that went on counting after it opened, while an invocation whose
\* success was recorded earlier is still running
C30_Witness ==
    /\ cb.state = "open"
    /\ cb.failureCount > cb.maxFailures
    /\ \E p, q \in Invocations :
          /\ inv[p].recorded # <<>>
          /\ inv[p].recorded[Len(inv[p].recorded)] = "failure"
          /\ inv[q].recorded = <<"success">>

\* ------------------------------------------------------------------------
\* Outcome recording (checked under SpecRetry)
\* ------------------------------------------------------------------------

\* C31: a DoWithCircuitBreaker call that was given the breaker records
\* nothing when the gate rejects it and nothing while it is attempting or
\* sleeping (a failed attempt followed by a retry leaves the breaker as it
\* was); when it has passed the gate and ended it has recorded exactly one
\* outcome, a success or a failure, in the step that ended it
C31_OneOutcomePerCall ==
    [][\A p \in Invocations :
          (inv'[p].pc # "off" /\ inv'[p].route = "manager")
          => /\ inv'[p].gate = "rejected"
                => inv'[p].recorded = <<>> /\ cb' = cb
             /\ inv'[p].pc \in {"attempt", "sleep"}
                => inv'[p].recorded = <<>>
             /\ (inv[p].pc = "attempt" /\ inv'[p].pc = "sleep")
                => cb' = cb
             /\ (inv'[p].pc = "done" /\ inv'[p].gate = "passed")
                => /\ inv'[p].recorded \in {<<"success">>, <<"failure">>}
                   /\ inv[p].pc = "attempt"
                      => /\ inv[p].recorded = <<>>
                         /\ inv'[p].recorded = <<"success">>
                            => cb'.failureCount = 0 /\ cb'.state = "closed"
                         /\ inv'[p].recorded = <<"failure">>
                            => cb'.failureCount = cb.failureCount + 1]_vars

\* a call that ended in failure after two retries, with one failure on the
\* breaker, and a later call rejected by the gate
C31_Witness ==
    \E p \in Invocations :
        /\ inv[p].pc = "done"
        /\ inv[p].route = "manager"
        /\ \/ /\ Len(inv[p].answers) = 3
              /\ inv[p].recorded = <<"failure">>
              /\ cb.failureCount = 1
           \/ /\ inv[p].gate = "rejected"
              /\ cb.failureCount = cb.maxFailures
              /\ cb.maxFailures = MaxFailuresBound

\* ------------------------------------------------------------------------
\* Concurrent recording (checked under Spec)
\* ------------------------------------------------------------------------

C33_RetrySendsWholeBody ==
    \A p \in Invocations :
        (inv[p].pc = "attempt" /\ inv[p].route = "manager")
        => inv[p].reader = inv[p].bytes

\* ------------------------------------------------------------------------
\* Named clients: two resource handlers behind one ClientManager
\* ------------------------------------------------------------------------

\* the name of a second endpoint
Name_s == <<"s">>

\* Client-centred initial states: each goroutine runs the handler of a
\* resource endpoint, both of endpoint r or one of r and one of s; the proxy's
\* ClientManager serves both (proxy.go:217), its breaker opens at the first
\* failure, and every goroutine can make one call
InitClients ==
    /\ endpoint = Endpoint(RESOURCE, Name_r, <<"/", "s">>, <<>>, <<>>, <<>>)
    /\ backend = Backend(BaseURL_h, <<>>)
    /\ served = PlainServed
    /\ request = [arguments |-> EmptyMap, uri |-> ProxyURI(Name_r)]
    /\ config \in ClientConfigs(ConcurrentRetriesBound)
    /\ cb = NewCircuitBreaker(1, MaxResetTimeout)
    /\ now = 0
    /\ inv = [p \in Invocations |-> Idle]
    /\ callsLeft = Cardinality(Invocations)
    /\ consecFailed = 0
    /\ proxy = NewProxy({})
    /\ clientNames \in {[p \in Invocations |-> Name_r],
                       [p \in Invocations |-> IF p = 1 THEN Name_r ELSE Name_s]}
    /\ construction = Constructed(<<<<endpoint.Capability>>>>)

SpecClients == InitClients /\ [][Next]_vars

\* C34: breaker state is scoped to a named client: a request routed through
\* one named client is not rejected with the circuit-open error because of
\* failures of requests routed through other named clients. When every
\* goroutine has taken its one call, a call whose client name no other call
\* bears is the first through its client, so the gate has let it pass
C34_BreakerPerClient ==
    \A p \in Invocations :
        ( /\ callsLeft = 0
          /\ \A q \in Invocations : inv[q].pc \notin {"idle", "off"}
          /\ inv[p].route = "manager"
          /\ \A q \in Invocations \ {p} : inv[q].client # inv[p].client )
        => inv[p].gate # "rejected"

\* ------------------------------------------------------------------------
\* Substitution of several path parameters (checked under SpecBuild)
\* ------------------------------------------------------------------------

\* every declared path parameter is Dynamic, so that its value is the bag's
DynamicPath ==
    \A i \in 1..Len(endpoint.PathParameters) :
        endpoint.PathParameters[i].ValueType = DYNAMIC

\* C35: path substitution is one simultaneous substitution over the original
\* template: the built URL is the template with each placeholder replaced by
\* its own parameter's value, whatever the values contain and in whatever
\* order the path parameters are declared; text brought in by a value is not
\* replaced by a later parameter
C35_SimultaneousSubstitution ==
    \A p \in Invocations :
        (Started(p) /\ DynamicPath /\ inv[p].built)
        => URLPath(inv[p].url)
              = backend.BaseURL \o SimSubst(endpoint.Path, PathValues)

\* ------------------------------------------------------------------------
\* Resource URIs and their arguments (checked under SpecOrder)
\* ------------------------------------------------------------------------

\* the identifiers of the declared path parameters
PathIdentifiers ==
    {endpoint.PathParameters[i].Identifier :
        i \in 1..Len(endpoint.PathParameters)}

\* the segments that the request's URI has after proxy://name
URISegments ==
    LET parts == Split(request.uri, "/")
    IN  [i \in 1..(Len(parts) - 3) |-> parts[i + 3]]

\* the request's URI is the URI template of the endpoint with a value in the
\* place of every placeholder
URIFromTemplate ==
    /\ HasPrefix(request.uri, ProxyURI(endpoint.Name))
    /\ Len(Split(request.uri, "/")) = 3 + Len(endpoint.PathParameters)

MessageItems(v) ==
    IF v.t = "object" /\ KeyMessages \in DOMAIN v.m
       /\ v.m[KeyMessages].t = "array"
    THEN v.m[KeyMessages].items
    ELSE <<>>

\* the text of a message item with resolvable content
ItemText(item) ==
    IF item.m[KeyContent].t = "string" THEN item.m[KeyContent].s
    ELSE item.m[KeyContent].m[KeyText].s

\* C37: parseStructuredPrompt keeps the surviving messages in the order they
\* have in the backend's messages array, each with the text of its source
\* element; unless the result is the single made-up message, it holds no more
\* messages than the array has elements
C37_MessagesKeepOrder ==
    \A p \in Invocations :
        PromptSuccess(p)
        => LET o == inv[p].out
               d == Unmarshal(served.body)
               items == IF d.ok THEN MessageItems(d.v) ELSE <<>>
               kept == SelectSeq(items, Resolvable)
           IN  \/ /\ Len(kept) = 0
                  /\ Len(o.messages) = 1
                  /\ o.messages[1].role = RoleUser
               \/ /\ Len(kept) > 0
                  /\ Len(o.messages) = Len(kept)
                  /\ Len(o.messages) <= Len(items)
                  /\ \A k \in 1..Len(kept) :
                        o.messages[k].text = ItemText(kept[k])

\* two surviving messages with different texts, or one that survives after
\* one that was dropped
C37_Witness ==
    \E p \in Invocations :
        /\ PromptSuccess(p)
        /\ Len(MessageItems(Unmarshal(served.body).v)) = MaxMessages
        /\ \/ inv[p].out.messages
                 = <<[role |-> RoleUser, text |-> Yo],
                     [role |-> RoleAssistant, text |-> Hi]>>
           \/ /\ ~Resolvable(MessageItems(Unmarshal(served.body).v)[1])
              /\ inv[p].out.messages = <<[role |-> RoleUser, text |-> Yo]>>

\* ------------------------------------------------------------------------
\* Constructing the server: NewServerFromConfig on small configurations
\* ------------------------------------------------------------------------

MaxBackends == 2
MaxEndpoints == 2

\* a capability that is none of tool, resource and prompt
Capability_widget == "widget"

\* the endpoint lists of one backend, and the configurations
EndpointLists ==
    UNION {[1..n -> {TOOL, RESOURCE, PROMPT, Capability_widget}] :
              n \in 0..MaxEndpoints}

ServerConfigs == UNION {[1..n -> EndpointLists] : n \in 0..MaxBackends}

\* the program before NewServerFromConfig is called: no Proxy serves yet, so
\* no handler can start
InitConfig ==
    /\ endpoint = Endpoint(TOOL, Name_r, <<"/", "s">>, <<>>, <<>>, <<>>)
    /\ backend = Backend(BaseURL_h, <<>>)
    /\ served = PlainServed
    /\ request = [arguments |-> EmptyMap, uri |-> Empty]
    /\ config \in ClientConfigs(0)
    /\ cb = NewCircuitBreaker(1, 1)
    /\ now = 0
    /\ inv = [p \in Invocations |-> Idle]
    /\ callsLeft = 0
    /\ consecFailed = 0
    /\ proxy = NewProxy({})
    /\ clientNames = [p \in Invocations |-> endpoint.Name]
    /\ construction \in {NotConstructed(cfg) : cfg \in ServerConfigs}

\* the call of NewServerFromConfig, from its entry to its return
NewServerFromConfigCall ==
    /\ construction.pc = "new"
    /\ construction' = Constructed(construction.cfg)
    /\ UNCHANGED <<endpoint, backend, request, served, config, clientNames,
                   cb, now, inv, callsLeft, consecFailed, proxy>>

NextConfig == NewServerFromConfigCall

SpecConfig == InitConfig /\ [][NextConfig]_vars

\* the places of the endpoints of a configuration that have capability c
Places(cfg, c) ==
    UNION {{<<b, k>> : k \in {i \in 1..Len(cfg[b]) : cfg[b][i] = c}} :
              b \in 1..Len(cfg)}

\* place x comes before place y in the configuration
Before(x, y) == x[1] < y[1] \/ (x[1] = y[1] /\ x[2] < y[2])

\* list holds one handler for each endpoint of capability c and no other, in
\* configuration order, each bound to its endpoint's backend
RegisteredInOrder(list, cfg, c) ==
    /\ Len(list) = Cardinality(Places(cfg, c))
    /\ \A i \in 1..Len(list) :
          /\ list[i].endpoint \in Places(cfg, c)
          /\ list[i].backend = list[i].endpoint[1]
    /\ \A i, j \in 1..Len(list) :
          i < j => Before(list[i].endpoint, list[j].endpoint)

\* C38: after NewServerFromConfig succeeds, every configured endpoint of every
\* backend is registered exactly once, in the list matching its capability
\* (tool, resource, prompt) and in configuration order, with a handler bound
\* to that endpoint and its own backend; an endpoint with any other
\* capability makes construction fail with an error and no server is returned
C38_EveryEndpointRegistered ==
    construction.pc = "returned"
    => LET cfg == construction.cfg
           r == construction.result
           known == \A b \in 1..Len(cfg) : \A k \in 1..Len(cfg[b]) :
                        cfg[b][k] \in {TOOL, RESOURCE, PROMPT}
       IN  /\ ~r.err <=> Len(r.server) = 1
           /\ ~r.err <=> known
           /\ ~r.err
              => /\ RegisteredInOrder(r.server[1].tools, cfg, TOOL)
                 /\ RegisteredInOrder(r.server[1].resources, cfg, RESOURCE)
                 /\ RegisteredInOrder(r.server[1].prompts, cfg, PROMPT)

\* a server returned for two backends with two endpoints each, the tools of
\* both backends in one list, or a configuration refused for the second
\* endpoint of its second backend
C38_Witness ==
    /\ construction.pc = "returned"
    /\ \/ /\ construction.cfg = <<<<TOOL, RESOURCE>>, <<PROMPT, TOOL>>>>
          /\ ~construction.result.err
          /\ construction.result.server[1].tools
                = <<[endpoint |-> <<1, 1>>, backend |-> 1],
                    [endpoint |-> <<2, 2>>, backend |-> 2]>>
       \/ /\ construction.cfg = <<<<TOOL, TOOL>>, <<TOOL, Capability_widget>>>>
          /\ construction.result.err
          /\ construction.result.server = <<>>

====
